---- MODULE Spec2Model ----
(***************************************************************************)
(* A model of the catalog REST API (categories and products): the zod      *)
(* schemas, the services' database calls, the controllers' request         *)
(* handlers and the central error handler.                                 *)
(*                                                                         *)
(* A request handler is an async function: between two awaits it runs      *)
(* alone, and every awaited database call is one atomic step of the        *)
(* database.  A handler is therefore modelled as a sequence of steps, one  *)
(* per database call, each step followed by the handler's local code up to *)
(* the next call or the response.  Steps of different requests interleave. *)
(*                                                                         *)
(* Strings are sequences of one-character strings.  Ids (UUIDs generated   *)
(* by the database) are the naturals 1, 2, ...; an id is never reused.     *)
(* Prices are whole numbers.  The timestamps createdAt/updatedAt are not   *)
(* modelled.                                                               *)
(***************************************************************************)
EXTENDS Integers, Sequences, FiniteSets, TLC

(***************************************************************************)
(* Bounds of the model.                                                    *)
(***************************************************************************)
\* category rows ever created (ids 1..MaxCat)
MaxCat == 2
\* product rows ever created (ids 1..MaxProd)
MaxProd == 2

\* the request slots: two requests are in flight at a time, which is what
\* a race between a check and a write takes
Req == {1, 2}

(***************************************************************************)
(* Values.                                                                 *)
(***************************************************************************)
\* null: a value different from every string over the alphabet
Null == <<"null">>

Max(a, b) == IF a >= b THEN a ELSE b
Min(a, b) == IF a <= b THEN a ELSE b

\* the record r without the fields outside keep
Restrict(r, keep) == [k \in (DOMAIN r) \cap keep |-> r[k]]

(***************************************************************************)
(* String.prototype.trim, and the string rules of the schemas.             *)
(***************************************************************************)
IsSpace(c) == c = " "

RECURSIVE TrimStart(_)
TrimStart(s) ==
    IF s # <<>> /\ IsSpace(Head(s)) THEN TrimStart(Tail(s)) ELSE s

RECURSIVE TrimEnd(_)
TrimEnd(s) ==
    IF s # <<>> /\ IsSpace(s[Len(s)]) THEN TrimEnd(SubSeq(s, 1, Len(s) - 1)) ELSE s

Trim(s) == TrimEnd(TrimStart(s))

\* z.string().min(1).max(max).trim(): the length rules see the string as
\* given, the trim comes after them
StringRuleOk(s, max) == Len(s) >= 1 /\ Len(s) <= max

\* z.string().max(max).trim().optional().nullable()
DescriptionRuleOk(d, max) == d = Null \/ Len(d) <= max

DescriptionValue(d) == IF d = Null THEN Null ELSE Trim(d)

(***************************************************************************)
(* Category schemas.                                                       *)
(***************************************************************************)
CategoryNameMax == 100
CategoryDescriptionMax == 500

\* categoryBaseSchema, every field optional: the fields present are checked
\* and normalised, the absent ones stay absent
updateCategorySchema(raw) ==
    LET ok == /\ ("name" \in DOMAIN raw => StringRuleOk(raw.name, CategoryNameMax))
              /\ ("description" \in DOMAIN raw =>
                     DescriptionRuleOk(raw.description, CategoryDescriptionMax))
    IN  IF ~ok THEN [success |-> FALSE]
        ELSE [success |-> TRUE,
              data |-> [k \in (DOMAIN raw) \cap {"name", "description"} |->
                          IF k = "name" THEN Trim(raw.name)
                          ELSE DescriptionValue(raw.description)]]

\* categoryBaseSchema: name is required
createCategorySchema(raw) ==
    IF "name" \notin DOMAIN raw THEN [success |-> FALSE]
    ELSE updateCategorySchema(raw)

\* z.object({ id: z.string().uuid() }): the parameter is a UUID or it is not
categoryIdParamSchema(param) ==
    IF param.uuid THEN [success |-> TRUE, data |-> [id |-> param.id]]
    ELSE [success |-> FALSE]

(***************************************************************************)
(* Product schemas.                                                        *)
(***************************************************************************)
ProductNameMax == 200
ProductDescriptionMax == 1000
ProductSkuMax == 50
\* .max(99999999.99), for whole prices
ProductPriceMax == 99999999

Digits == <<"0", "1", "2", "3", "4", "5", "6", "7", "8", "9">>

IsDigit(c) == \E i \in 1..Len(Digits) : Digits[i] = c

DigitValue(c) == (CHOOSE i \in 1..Len(Digits) : Digits[i] = c) - 1

\* the value of the longest prefix of digits of s, continuing from acc
RECURSIVE DigitsPrefix(_, _)
DigitsPrefix(s, acc) ==
    IF s # <<>> /\ IsDigit(Head(s))
    THEN DigitsPrefix(Tail(s), acc * 10 + DigitValue(Head(s)))
    ELSE acc

\* parseFloat on strings of digits, spaces and other characters: leading
\* white space is skipped, the longest numeric prefix is read, and what
\* follows it is ignored; no numeric prefix gives NaN
parseFloat(s) ==
    LET t == TrimStart(s)
    IN  IF t # <<>> /\ IsDigit(Head(t))
        THEN [nan |-> FALSE, value |-> DigitsPrefix(t, 0)]
        ELSE [nan |-> TRUE]

\* the price as given is a JSON number [num |-> n] or a JSON string [str |-> s]
priceTransform(price) ==
    IF "str" \in DOMAIN price THEN parseFloat(price.str)
    ELSE [nan |-> FALSE, value |-> price.num]

\* .pipe(z.number().positive().max(99999999.99))
PriceRuleOk(price) ==
    LET num == priceTransform(price)
    IN  ~num.nan /\ num.value > 0 /\ num.value <= ProductPriceMax

\* the transform throws on NaN, out of the schema's safeParse
priceThrows(raw) == "price" \in DOMAIN raw /\ priceTransform(raw.price).nan

ProductFields ==
    {"name", "description", "price", "stock", "sku", "isActive", "categoryId"}

\* productBaseSchema.partial(): the fields present are checked and
\* normalised; an absent field stays absent (no default is filled in)
updateProductSchema(raw) ==
    LET ok ==
          /\ ("name" \in DOMAIN raw => StringRuleOk(raw.name, ProductNameMax))
          /\ ("description" \in DOMAIN raw =>
                 DescriptionRuleOk(raw.description, ProductDescriptionMax))
          /\ ("price" \in DOMAIN raw => PriceRuleOk(raw.price))
          /\ ("stock" \in DOMAIN raw => raw.stock >= 0)
          /\ ("sku" \in DOMAIN raw => StringRuleOk(raw.sku, ProductSkuMax))
          /\ ("categoryId" \in DOMAIN raw => raw.categoryId.uuid)
    IN  IF ~ok THEN [success |-> FALSE]
        ELSE [success |-> TRUE,
              data |-> [k \in (DOMAIN raw) \cap ProductFields |->
                  CASE k = "name" -> Trim(raw.name)
                    [] k = "description" -> DescriptionValue(raw.description)
                    [] k = "price" -> priceTransform(raw.price).value
                    [] k = "stock" -> raw.stock
                    [] k = "sku" -> Trim(raw.sku)
                    [] k = "isActive" -> raw.isActive
                    [] k = "categoryId" -> raw.categoryId.id]]

\* productBaseSchema: name, price, sku and categoryId are required, stock
\* and isActive take their defaults when absent
createProductSchema(raw) ==
    IF ~({"name", "price", "sku", "categoryId"} \subseteq DOMAIN raw)
    THEN [success |-> FALSE]
    ELSE LET res == updateProductSchema(raw)
         IN  IF ~res.success THEN res
             \* the defaults of productBaseSchema: stock 0, isActive true
             ELSE [success |-> TRUE,
                   data |-> res.data @@ [stock |-> 0, isActive |-> TRUE]]

productIdParamSchema(param) ==
    IF param.uuid THEN [success |-> TRUE, data |-> [id |-> param.id]]
    ELSE [success |-> FALSE]

(***************************************************************************)
(* Response helpers.                                                       *)
(***************************************************************************)
sendSuccess(data, message, statusCode) ==
    [status |-> statusCode, success |-> TRUE, message |-> message, data |-> data]

sendCreated(data, message) == sendSuccess(data, message, 201)

sendNoContent == [status |-> 204]

sendError(message, statusCode) ==
    [status |-> statusCode, success |-> FALSE, message |-> message]

sendBadRequest(message) == sendError(message, 400)

sendNotFound(message) == sendError(message, 404)

sendConflict(message) == sendError(message, 409)

sendInternalError == sendError("Internal server error", 500)

\* `...(error && { error })`: the detail is in the envelope when it is a
\* string that is not empty; undefined is written as the empty string
WithError(response, error) ==
    IF error = "" THEN response ELSE response @@ [error |-> error]

\* no response sent yet
NoResponse == [status |-> 0]

(***************************************************************************)
(* Errors thrown by the database client, and the central error handler.    *)
(***************************************************************************)
KnownRequestError(code, target) ==
    [name |-> "PrismaClientKnownRequestError", code |-> code, target |-> target]

\* mutant: every error is answered as an internal error
errorHandler_allInternal(err, env) == sendInternalError

\* `err.message`; the errors the model builds without one have none
Message(err) == IF "message" \in DOMAIN err THEN err.message ELSE ""

\* mutant: the message whatever the environment
errorMessage_always(err, env) == Message(err)

\* `process.env.NODE_ENV === 'development' ? err.message : undefined`
errorMessage(err, env) == IF env = "development" THEN Message(err) ELSE ""

\* `prismaError.code` of the switch: undefined when the error carries none
ErrorCode(err) == IF "code" \in DOMAIN err THEN err.code ELSE "undefined"

\* `prismaError.meta?.target?.[0] || 'field'`
TargetField(err) ==
    IF "target" \in DOMAIN err /\ err.target # "" THEN err.target ELSE "field"

errorHandler(err, env) ==
    IF err.name = "ZodError"
    THEN WithError(sendBadRequest("Validation error"), Message(err))
    ELSE IF err.name = "PrismaClientKnownRequestError"
    THEN CASE ErrorCode(err) = "P2002" ->
                sendBadRequest("A record with this " \o TargetField(err)
                                   \o " already exists")
           [] ErrorCode(err) = "P2025" -> sendNotFound("Record not found")
           [] ErrorCode(err) = "P2003" -> sendBadRequest("Referenced record does not exist")
           [] OTHER -> WithError(sendInternalError, "Database error occurred")
    ELSE IF err.name = "PrismaClientValidationError"
    THEN sendBadRequest("Invalid data provided")
    ELSE WithError(sendInternalError, errorMessage(err, env))

(***************************************************************************)
(* State.                                                                  *)
(***************************************************************************)
VARIABLES
    categories,   \* the category table: id -> row
    products,     \* the product table: id -> row
    nextCatId,    \* the id the next created category gets
    nextProdId,   \* the id the next created product gets
    req           \* the requests: what each is handling and where it stands

vars == <<categories, products, nextCatId, nextProdId, req>>

Idle == [kind |-> "none", pc |-> "idle", resp |-> NoResponse]

Init ==
    /\ categories = [i \in {} |-> Null]
    /\ products = [i \in {} |-> Null]
    /\ nextCatId = 1
    /\ nextProdId = 1
    /\ req = [r \in Req |-> Idle]

\* no request is being handled in slot r
Free(r) == req[r].pc \in {"idle", "done"}

\* a new request is taken into the lowest free slot
Accepts(r) == Free(r) /\ \A q \in Req : q < r => ~Free(q)

\* mutant: the handler sends the response and does not return
Respond_continues(r, response) ==
    req' = [req EXCEPT ![r] = [@ EXCEPT !.resp = response]]

\* the handler responds (or the error handler does) and the request ends:
\* what stays is the request as it came and the response, the handler's
\* locals are gone
Respond(r, response) ==
    req' = [req EXCEPT ![r] =
              Restrict(@, {"kind", "param", "raw"}) @@ [pc |-> "done", resp |-> response]]

\* process.env.NODE_ENV of the process that handles the category and product
\* requests
NODE_ENV == "production"

\* next(error): the central error handler answers
Forward(r, err) == Respond(r, errorHandler(err, NODE_ENV))

Goto(r, pc) == req' = [req EXCEPT ![r] = [@ EXCEPT !.pc = pc]]

InFlight(kind) == Cardinality({r \in Req : req[r].kind = kind /\ ~Free(r)})

(***************************************************************************)
(* The category table's constraints (the ORM schema): name is unique, and  *)
(* a category that products reference cannot be deleted.                   *)
(***************************************************************************)
\* another category than `except` holds the name
CategoryNameTaken(name, except) ==
    \E i \in (DOMAIN categories) \ {except} : categories[i].name = name

\* the foreign key of product.categoryId restricts the category's delete
CategoryReferenced(id) ==
    \E p \in DOMAIN products : products[p].categoryId = id

(***************************************************************************)
(* categoryService: each call is one database statement.  A call yields    *)
(* [ok |-> TRUE, ...] with what it returns and the table after it, or      *)
(* [ok |-> FALSE, err |-> e] when the database client throws e.            *)
(***************************************************************************)
\* mutant: the lookup by id finds a category under every id
categoryService_findById_any(id) == {[id |-> id]}

categoryService_findById(id) ==
    IF id \in DOMAIN categories THEN {categories[id]} ELSE {}

\* mutant: the lookup by name finds nothing
categoryService_findByName_blind(name) == {}

categoryService_findByName(name) ==
    {categories[i] : i \in {j \in DOMAIN categories : categories[j].name = name}}

\* the row prisma.category.create is given: `description ?? null`
CategoryRow(id, data) ==
    [id |-> id,
     name |-> data.name,
     description |-> IF "description" \in DOMAIN data THEN data.description ELSE Null]

categoryService_create(data) ==
    LET row == CategoryRow(nextCatId, data)
    IN  IF CategoryNameTaken(data.name, 0)
        THEN [ok |-> FALSE, err |-> KnownRequestError("P2002", "name")]
        ELSE [ok |-> TRUE, row |-> row, table |-> (nextCatId :> row) @@ categories]

\* mutant: only the name given is applied, a description given is ignored
CategoryUpdateRow_nameOnly(row, data) ==
    [f \in DOMAIN row |-> IF f = "name" /\ f \in DOMAIN data THEN data[f] ELSE row[f]]

\* the spread of the fields that are not undefined over the stored row
CategoryUpdateRow(row, data) ==
    [f \in DOMAIN row |->
        IF f \in {"name", "description"} /\ f \in DOMAIN data THEN data[f] ELSE row[f]]

categoryService_update(id, data) ==
    IF id \notin DOMAIN categories
    THEN [ok |-> FALSE, err |-> KnownRequestError("P2025", "")]
    ELSE IF "name" \in DOMAIN data /\ CategoryNameTaken(data.name, id)
    THEN [ok |-> FALSE, err |-> KnownRequestError("P2002", "name")]
    ELSE LET row == CategoryUpdateRow(categories[id], data)
         IN  [ok |-> TRUE, row |-> row, table |-> [categories EXCEPT ![id] = row]]

\* mutant: the delete statement has no where clause
categoryService_delete_all(id) ==
    IF id \notin DOMAIN categories
    THEN [ok |-> FALSE, err |-> KnownRequestError("P2025", "")]
    ELSE [ok |-> TRUE, table |-> [i \in {} |-> Null]]

categoryService_delete(id) ==
    IF id \notin DOMAIN categories
    THEN [ok |-> FALSE, err |-> KnownRequestError("P2025", "")]
    ELSE IF CategoryReferenced(id)
    THEN [ok |-> FALSE, err |-> KnownRequestError("P2003", "")]
    ELSE [ok |-> TRUE,
          table |-> [i \in (DOMAIN categories) \ {id} |-> categories[i]]]

categoryService_hasProducts(id) ==
    Cardinality({p \in DOMAIN products : products[p].categoryId = id}) > 0

(***************************************************************************)
(* categoryController.create                                               *)
(***************************************************************************)
categoryCreate_begin(r, raw) ==
    /\ Accepts(r)
    /\ nextCatId + InFlight("categoryCreate") <= MaxCat
    /\ LET bodyResult == createCategorySchema(raw)
           this == [kind |-> "categoryCreate", raw |-> raw]
       IN  req' = [req EXCEPT ![r] =
                IF ~bodyResult.success
                THEN this @@ [pc |-> "done", resp |-> sendBadRequest("Validation failed")]
                ELSE this @@ [pc |-> "findByName", resp |-> NoResponse,
                              body |-> bodyResult.data]]
    /\ UNCHANGED <<categories, products, nextCatId, nextProdId>>

categoryCreate_findByName(r) ==
    /\ req[r].kind = "categoryCreate" /\ req[r].pc = "findByName"
    /\ LET existing == categoryService_findByName(req[r].body.name)
       IN  IF existing # {}
           THEN Respond(r, sendConflict("Category with this name already exists"))
           ELSE Goto(r, "create")
    /\ UNCHANGED <<categories, products, nextCatId, nextProdId>>

categoryCreate_create(r) ==
    /\ req[r].kind = "categoryCreate" /\ req[r].pc = "create"
    /\ LET res == categoryService_create(req[r].body)
       IN  IF res.ok
           THEN /\ categories' = res.table
                /\ nextCatId' = nextCatId + 1
                /\ Respond(r, sendCreated(res.row, "Category created successfully"))
           ELSE /\ Forward(r, res.err)
                /\ UNCHANGED <<categories, nextCatId>>
    /\ UNCHANGED <<products, nextProdId>>

(***************************************************************************)
(* categoryController.update                                               *)
(***************************************************************************)
categoryUpdate_begin(r, param, raw) ==
    /\ Accepts(r)
    /\ LET paramResult == categoryIdParamSchema(param)
           bodyResult == updateCategorySchema(raw)
           this == [kind |-> "categoryUpdate", param |-> param, raw |-> raw]
       IN  req' = [req EXCEPT ![r] =
                IF ~paramResult.success
                THEN this @@ [pc |-> "done", resp |-> sendBadRequest("Invalid category ID")]
                ELSE IF ~bodyResult.success
                THEN this @@ [pc |-> "done", resp |-> sendBadRequest("Validation failed")]
                ELSE this @@ [pc |-> "findById", resp |-> NoResponse,
                              id |-> paramResult.data.id, body |-> bodyResult.data]]
    /\ UNCHANGED <<categories, products, nextCatId, nextProdId>>

\* `name && name !== existing.name`: an empty string counts as no name
categoryUpdate_needsNameCheck(body, existing) ==
    /\ "name" \in DOMAIN body
    /\ body.name # <<>>
    /\ body.name # existing.name

categoryUpdate_findById(r) ==
    /\ req[r].kind = "categoryUpdate" /\ req[r].pc = "findById"
    /\ LET existing == categoryService_findById(req[r].id)
       IN  IF existing = {}
           THEN Respond(r, sendNotFound("Category not found"))
           ELSE LET e == CHOOSE x \in existing : TRUE
                IN  Goto(r, IF categoryUpdate_needsNameCheck(req[r].body, e)
                            THEN "findByName" ELSE "update")
    /\ UNCHANGED <<categories, products, nextCatId, nextProdId>>

categoryUpdate_findByName(r) ==
    /\ req[r].kind = "categoryUpdate" /\ req[r].pc = "findByName"
    /\ LET duplicate == categoryService_findByName(req[r].body.name)
       IN  IF duplicate # {}
           THEN Respond(r, sendConflict("Category with this name already exists"))
           ELSE Goto(r, "update")
    /\ UNCHANGED <<categories, products, nextCatId, nextProdId>>

categoryUpdate_update(r) ==
    /\ req[r].kind = "categoryUpdate" /\ req[r].pc = "update"
    /\ LET res == categoryService_update(req[r].id, req[r].body)
       IN  IF res.ok
           THEN /\ categories' = res.table
                /\ Respond(r, sendSuccess(res.row, "Category updated successfully", 200))
           ELSE /\ Forward(r, res.err)
                /\ UNCHANGED categories
    /\ UNCHANGED <<products, nextCatId, nextProdId>>

(***************************************************************************)
(* categoryController.delete                                               *)
(***************************************************************************)
categoryDelete_begin(r, param) ==
    /\ Accepts(r)
    /\ LET paramResult == categoryIdParamSchema(param)
           this == [kind |-> "categoryDelete", param |-> param]
       IN  req' = [req EXCEPT ![r] =
                IF ~paramResult.success
                THEN this @@ [pc |-> "done", resp |-> sendBadRequest("Invalid category ID")]
                ELSE this @@ [pc |-> "findById", resp |-> NoResponse,
                              id |-> paramResult.data.id]]
    /\ UNCHANGED <<categories, products, nextCatId, nextProdId>>

categoryDelete_findById(r) ==
    /\ req[r].kind = "categoryDelete" /\ req[r].pc = "findById"
    /\ IF categoryService_findById(req[r].id) = {}
       THEN Respond(r, sendNotFound("Category not found"))
       ELSE Goto(r, "hasProducts")
    /\ UNCHANGED <<categories, products, nextCatId, nextProdId>>

categoryDelete_hasProducts(r) ==
    /\ req[r].kind = "categoryDelete" /\ req[r].pc = "hasProducts"
    /\ IF categoryService_hasProducts(req[r].id)
       THEN Respond(r, sendConflict("Cannot delete category with associated products"))
       ELSE Goto(r, "delete")
    /\ UNCHANGED <<categories, products, nextCatId, nextProdId>>

categoryDelete_delete(r) ==
    /\ req[r].kind = "categoryDelete" /\ req[r].pc = "delete"
    /\ LET res == categoryService_delete(req[r].id)
       IN  IF res.ok
           THEN /\ categories' = res.table
                /\ Respond(r, sendNoContent)
           ELSE /\ Forward(r, res.err)
                /\ UNCHANGED categories
    /\ UNCHANGED <<products, nextCatId, nextProdId>>

(***************************************************************************)
(* The product table's constraints (the ORM schema): sku is unique, and    *)
(* categoryId is a foreign key to the category table.                      *)
(***************************************************************************)
\* another product than `except` holds the sku
ProductSkuTaken(sku, except) ==
    \E i \in (DOMAIN products) \ {except} : products[i].sku = sku

\* mutant: no foreign key is enforced
CategoryKeyHeld_unchecked(categoryId) == TRUE

\* the foreign key of product.categoryId has its category
CategoryKeyHeld(categoryId) == categoryId \in DOMAIN categories

(***************************************************************************)
(* productService                                                          *)
(***************************************************************************)
\* include: { category: { select: { id: true, name: true } } }
WithCategory(row, cats) ==
    row @@ [category |-> IF row.categoryId \in DOMAIN cats
                         THEN [id |-> cats[row.categoryId].id,
                               name |-> cats[row.categoryId].name]
                         ELSE Null]

productService_findById(id) ==
    IF id \in DOMAIN products THEN {WithCategory(products[id], categories)} ELSE {}

\* mutant: the lookup by sku finds nothing
productService_findBySku_blind(sku) == {}

productService_findBySku(sku) ==
    {products[i] : i \in {j \in DOMAIN products : products[j].sku = sku}}

\* mutant: the stock given is dropped, the column default is stored
ProductRow_stockDropped(id, data) ==
    [id |-> id,
     name |-> data.name,
     description |-> IF "description" \in DOMAIN data THEN data.description ELSE Null,
     price |-> data.price,
     stock |-> 0,
     sku |-> data.sku,
     isActive |-> data.isActive,
     categoryId |-> data.categoryId]

\* the row prisma.product.create is given: `description ?? null`, the other
\* fields as validated
ProductRow(id, data) ==
    [id |-> id,
     name |-> data.name,
     description |-> IF "description" \in DOMAIN data THEN data.description ELSE Null,
     price |-> data.price,
     stock |-> data.stock,
     sku |-> data.sku,
     isActive |-> data.isActive,
     categoryId |-> data.categoryId]

productService_create(data) ==
    LET row == ProductRow(nextProdId, data)
    IN  IF ProductSkuTaken(data.sku, 0)
        THEN [ok |-> FALSE, err |-> KnownRequestError("P2002", "sku")]
        ELSE IF ~CategoryKeyHeld(data.categoryId)
        THEN [ok |-> FALSE, err |-> KnownRequestError("P2003", "")]
        ELSE [ok |-> TRUE, row |-> WithCategory(row, categories),
              table |-> (nextProdId :> row) @@ products]

\* mutant: a field absent from the data is reset instead of kept
ProductUpdateRow_reset(row, data) ==
    [f \in DOMAIN row |->
        IF f \in ProductFields /\ f \in DOMAIN data THEN data[f]
        ELSE IF f = "stock" THEN 0 ELSE row[f]]

\* the spread of the fields that are not undefined over the stored row
ProductUpdateRow(row, data) ==
    [f \in DOMAIN row |->
        IF f \in ProductFields /\ f \in DOMAIN data THEN data[f] ELSE row[f]]

productService_update(id, data) ==
    IF id \notin DOMAIN products
    THEN [ok |-> FALSE, err |-> KnownRequestError("P2025", "")]
    ELSE IF "sku" \in DOMAIN data /\ ProductSkuTaken(data.sku, id)
    THEN [ok |-> FALSE, err |-> KnownRequestError("P2002", "sku")]
    ELSE IF "categoryId" \in DOMAIN data /\ ~CategoryKeyHeld(data.categoryId)
    THEN [ok |-> FALSE, err |-> KnownRequestError("P2003", "")]
    ELSE LET row == ProductUpdateRow(products[id], data)
         IN  [ok |-> TRUE, row |-> WithCategory(row, categories),
              table |-> [products EXCEPT ![id] = row]]

\* mutant: deleting a product that is not stored succeeds
productService_delete_idempotent(id) ==
    [ok |-> TRUE, table |-> [i \in (DOMAIN products) \ {id} |-> products[i]]]

productService_delete(id) ==
    IF id \notin DOMAIN products
    THEN [ok |-> FALSE, err |-> KnownRequestError("P2025", "")]
    ELSE [ok |-> TRUE, table |-> [i \in (DOMAIN products) \ {id} |-> products[i]]]

(***************************************************************************)
(* productController.create                                                *)
(***************************************************************************)
productCreate_begin(r, raw) ==
    /\ Accepts(r)
    /\ nextProdId + InFlight("productCreate") <= MaxProd
    /\ LET bodyResult == createProductSchema(raw)
           this == [kind |-> "productCreate", raw |-> raw]
       IN  req' = [req EXCEPT ![r] =
                IF priceThrows(raw)
                THEN this @@ [pc |-> "done", resp |-> errorHandler([name |-> "Error"], NODE_ENV)]
                ELSE IF ~bodyResult.success
                THEN this @@ [pc |-> "done", resp |-> sendBadRequest("Validation failed")]
                ELSE this @@ [pc |-> "findCategory", resp |-> NoResponse,
                              body |-> bodyResult.data]]
    /\ UNCHANGED <<categories, products, nextCatId, nextProdId>>

productCreate_findCategory(r) ==
    /\ req[r].kind = "productCreate" /\ req[r].pc = "findCategory"
    /\ IF categoryService_findById(req[r].body.categoryId) = {}
       THEN Respond(r, sendBadRequest("Category not found"))
       ELSE Goto(r, "findBySku")
    /\ UNCHANGED <<categories, products, nextCatId, nextProdId>>

productCreate_findBySku(r) ==
    /\ req[r].kind = "productCreate" /\ req[r].pc = "findBySku"
    /\ LET existingSku == productService_findBySku(req[r].body.sku)
       IN  IF existingSku # {}
           THEN Respond(r, sendConflict("Product with this SKU already exists"))
           ELSE Goto(r, "create")
    /\ UNCHANGED <<categories, products, nextCatId, nextProdId>>

productCreate_create(r) ==
    /\ req[r].kind = "productCreate" /\ req[r].pc = "create"
    /\ LET res == productService_create(req[r].body)
       IN  IF res.ok
           THEN /\ products' = res.table
                /\ nextProdId' = nextProdId + 1
                /\ Respond(r, sendCreated(res.row, "Product created successfully"))
           ELSE /\ Forward(r, res.err)
                /\ UNCHANGED <<products, nextProdId>>
    /\ UNCHANGED <<categories, nextCatId>>

(***************************************************************************)
(* productController.update                                                *)
(***************************************************************************)
productUpdate_begin(r, param, raw) ==
    /\ Accepts(r)
    /\ LET paramResult == productIdParamSchema(param)
           bodyResult == updateProductSchema(raw)
           this == [kind |-> "productUpdate", param |-> param, raw |-> raw]
       IN  req' = [req EXCEPT ![r] =
                IF ~paramResult.success
                THEN this @@ [pc |-> "done", resp |-> sendBadRequest("Invalid product ID")]
                ELSE IF priceThrows(raw)
                THEN this @@ [pc |-> "done", resp |-> errorHandler([name |-> "Error"], NODE_ENV)]
                ELSE IF ~bodyResult.success
                THEN this @@ [pc |-> "done", resp |-> sendBadRequest("Validation failed")]
                ELSE this @@ [pc |-> "findById", resp |-> NoResponse,
                              id |-> paramResult.data.id, body |-> bodyResult.data]]
    /\ UNCHANGED <<categories, products, nextCatId, nextProdId>>

\* `sku && sku !== existing.sku`: an empty string counts as no sku
productUpdate_needsSkuCheck(body, existingSku) ==
    /\ "sku" \in DOMAIN body
    /\ body.sku # <<>>
    /\ body.sku # existingSku

\* after the category check: the sku check, or the update at once
productUpdate_afterCategory(body, existingSku) ==
    IF productUpdate_needsSkuCheck(body, existingSku) THEN "findBySku" ELSE "update"

productUpdate_findById(r) ==
    /\ req[r].kind = "productUpdate" /\ req[r].pc = "findById"
    /\ LET existing == productService_findById(req[r].id)
       IN  IF existing = {}
           THEN Respond(r, sendNotFound("Product not found"))
           ELSE LET e == CHOOSE x \in existing : TRUE
                IN  req' = [req EXCEPT ![r] = [existingSku |-> e.sku] @@
                        [@ EXCEPT !.pc =
                            IF "categoryId" \in DOMAIN req[r].body
                            THEN "findCategory"
                            ELSE productUpdate_afterCategory(req[r].body, e.sku)]]
    /\ UNCHANGED <<categories, products, nextCatId, nextProdId>>

productUpdate_findCategory(r) ==
    /\ req[r].kind = "productUpdate" /\ req[r].pc = "findCategory"
    /\ IF categoryService_findById(req[r].body.categoryId) = {}
       THEN Respond(r, sendBadRequest("Category not found"))
       ELSE Goto(r, productUpdate_afterCategory(req[r].body, req[r].existingSku))
    /\ UNCHANGED <<categories, products, nextCatId, nextProdId>>

productUpdate_findBySku(r) ==
    /\ req[r].kind = "productUpdate" /\ req[r].pc = "findBySku"
    /\ LET duplicate == productService_findBySku(req[r].body.sku)
       IN  IF duplicate # {}
           THEN Respond(r, sendConflict("Product with this SKU already exists"))
           ELSE Goto(r, "update")
    /\ UNCHANGED <<categories, products, nextCatId, nextProdId>>

productUpdate_update(r) ==
    /\ req[r].kind = "productUpdate" /\ req[r].pc = "update"
    /\ LET res == productService_update(req[r].id, req[r].body)
       IN  IF res.ok
           THEN /\ products' = res.table
                /\ Respond(r, sendSuccess(res.row, "Product updated successfully", 200))
           ELSE /\ Forward(r, res.err)
                /\ UNCHANGED products
    /\ UNCHANGED <<categories, nextCatId, nextProdId>>

(***************************************************************************)
(* productController.delete                                                *)
(***************************************************************************)
productDelete_begin(r, param) ==
    /\ Accepts(r)
    /\ LET paramResult == productIdParamSchema(param)
           this == [kind |-> "productDelete", param |-> param]
       IN  req' = [req EXCEPT ![r] =
                IF ~paramResult.success
                THEN this @@ [pc |-> "done", resp |-> sendBadRequest("Invalid product ID")]
                ELSE this @@ [pc |-> "findById", resp |-> NoResponse,
                              id |-> paramResult.data.id]]
    /\ UNCHANGED <<categories, products, nextCatId, nextProdId>>

productDelete_findById(r) ==
    /\ req[r].kind = "productDelete" /\ req[r].pc = "findById"
    /\ IF productService_findById(req[r].id) = {}
       THEN Respond(r, sendNotFound("Product not found"))
       ELSE Goto(r, "delete")
    /\ UNCHANGED <<categories, products, nextCatId, nextProdId>>

productDelete_delete(r) ==
    /\ req[r].kind = "productDelete" /\ req[r].pc = "delete"
    /\ LET res == productService_delete(req[r].id)
       IN  IF res.ok
           THEN /\ products' = res.table
                /\ Respond(r, sendNoContent)
           ELSE /\ Forward(r, res.err)
                /\ UNCHANGED products
    /\ UNCHANGED <<categories, nextCatId, nextProdId>>

(***************************************************************************)
(* productService.toggleActive and productController.toggleActive: the     *)
(* service reads the flag and writes its negation in two statements.       *)
(***************************************************************************)
\* mutant: the flag read is written back
ToggledRow_same(row, isActive) == [row EXCEPT !.isActive = isActive]

\* mutant: the update statement negates the flag it finds stored
ToggledRow_stored(row, isActive) == [row EXCEPT !.isActive = ~row.isActive]

\* data: { isActive: !product.isActive }
ToggledRow(row, isActive) == [row EXCEPT !.isActive = ~isActive]

\* prisma.product.update({ where: { id }, data: { isActive: !product.isActive } })
productService_toggleActive_update(id, isActive) ==
    IF id \notin DOMAIN products
    THEN [ok |-> FALSE, err |-> KnownRequestError("P2025", "")]
    ELSE LET row == ToggledRow(products[id], isActive)
         IN  [ok |-> TRUE, row |-> row, table |-> [products EXCEPT ![id] = row]]

productToggle_begin(r, param) ==
    /\ Accepts(r)
    /\ LET paramResult == productIdParamSchema(param)
           this == [kind |-> "productToggle", param |-> param]
       IN  req' = [req EXCEPT ![r] =
                IF ~paramResult.success
                THEN this @@ [pc |-> "done", resp |-> sendBadRequest("Invalid product ID")]
                ELSE this @@ [pc |-> "findUnique", resp |-> NoResponse,
                              id |-> paramResult.data.id]]
    /\ UNCHANGED <<categories, products, nextCatId, nextProdId>>

\* prisma.product.findUnique({ where: { id }, select: { isActive: true } })
productToggle_findUnique(r) ==
    /\ req[r].kind = "productToggle" /\ req[r].pc = "findUnique"
    /\ IF req[r].id \notin DOMAIN products
       THEN Respond(r, sendNotFound("Product not found"))
       ELSE req' = [req EXCEPT ![r] =
                       [isActive |-> products[req[r].id].isActive] @@
                       [@ EXCEPT !.pc = "update"]]
    /\ UNCHANGED <<categories, products, nextCatId, nextProdId>>

productToggle_update(r) ==
    /\ req[r].kind = "productToggle" /\ req[r].pc = "update"
    /\ LET res == productService_toggleActive_update(req[r].id, req[r].isActive)
       IN  IF res.ok
           THEN /\ products' = res.table
                /\ Respond(r, sendSuccess(res.row,
                                  IF res.row.isActive
                                  THEN "Product activated successfully"
                                  ELSE "Product deactivated successfully", 200))
           ELSE /\ Forward(r, res.err)
                /\ UNCHANGED products
    /\ UNCHANGED <<categories, nextCatId, nextProdId>>

(***************************************************************************)
(* productService.updateStock: one statement, the database's increment.    *)
(* No route calls it: the caller is a call of the service, which gets the  *)
(* row back or the error thrown.                                           *)
(***************************************************************************)
\* mutant: the quantity is stored instead of added
IncrementedRow_set(row, quantity) == [row EXCEPT !.stock = quantity]

\* data: { stock: { increment: quantity } }
IncrementedRow(row, quantity) == [row EXCEPT !.stock = @ + quantity]

productService_updateStock(id, quantity) ==
    IF id \notin DOMAIN products
    THEN [ok |-> FALSE, err |-> KnownRequestError("P2025", "")]
    ELSE LET row == IncrementedRow(products[id], quantity)
         IN  [ok |-> TRUE, row |-> row, table |-> [products EXCEPT ![id] = row]]

\* the call is made
updateStock_begin(r, id, quantity) ==
    /\ Accepts(r)
    /\ req' = [req EXCEPT ![r] =
                 [kind |-> "updateStock", param |-> [id |-> id, quantity |-> quantity],
                  pc |-> "update", resp |-> NoResponse]]
    /\ UNCHANGED <<categories, products, nextCatId, nextProdId>>

\* the statement runs and the call returns or throws
updateStock_update(r) ==
    /\ req[r].kind = "updateStock" /\ req[r].pc = "update"
    /\ LET res == productService_updateStock(req[r].param.id, req[r].param.quantity)
       IN  IF res.ok
           THEN /\ products' = res.table
                /\ Respond(r, [status |-> 0, returned |-> res.row])
           ELSE /\ Respond(r, [status |-> 0, thrown |-> res.err])
                /\ UNCHANGED products
    /\ UNCHANGED <<categories, nextCatId, nextProdId>>

(***************************************************************************)
(* The requests of the concurrent specifications: the bodies vary in the   *)
(* keys the cross-entity checks read (name, sku, categoryId).              *)
(***************************************************************************)
Uuid(i) == [uuid |-> TRUE, id |-> i]

CategoryParams == {Uuid(i) : i \in 1..MaxCat}

ProductParams == {Uuid(i) : i \in 1..MaxProd}

KeySkus == {<<"x">>, <<"y">>}

KeyCategoryBodies == {[name |-> n] : n \in {<<"a">>, <<"b">>}}

KeyProductBody(sku, categoryId) ==
    [name |-> <<"a">>, price |-> [num |-> 1], sku |-> sku, categoryId |-> categoryId]

(***************************************************************************)
(* Spec: product requests that write skus, interleaved.                    *)
(***************************************************************************)
Next ==
    \E r \in Req :
        \/ categoryCreate_begin(r, [name |-> <<"a">>])
        \/ categoryCreate_findByName(r)
        \/ categoryCreate_create(r)
        \/ \E k \in KeySkus, c \in CategoryParams :
               productCreate_begin(r, KeyProductBody(k, c))
        \/ productCreate_findCategory(r)
        \/ productCreate_findBySku(r)
        \/ productCreate_create(r)
        \/ \E param \in ProductParams, k \in KeySkus :
               productUpdate_begin(r, param, [sku |-> k])
        \/ productUpdate_findById(r)
        \/ productUpdate_findBySku(r)
        \/ productUpdate_update(r)
        \/ \E param \in ProductParams : productDelete_begin(r, param)
        \/ productDelete_findById(r)
        \/ productDelete_delete(r)

Spec == Init /\ [][Next]_vars

(***************************************************************************)
(* SpecReference: product requests that write categoryId, interleaved with *)
(* the creates and deletes of categories.                                  *)
(***************************************************************************)
NextReference ==
    \E r \in Req :
        \/ \E raw \in KeyCategoryBodies : categoryCreate_begin(r, raw)
        \/ categoryCreate_findByName(r)
        \/ categoryCreate_create(r)
        \/ \E param \in CategoryParams : categoryDelete_begin(r, param)
        \/ categoryDelete_findById(r)
        \/ categoryDelete_hasProducts(r)
        \/ categoryDelete_delete(r)
        \/ \E c \in CategoryParams : productCreate_begin(r, KeyProductBody(<<"x">>, c))
        \/ productCreate_findCategory(r)
        \/ productCreate_findBySku(r)
        \/ productCreate_create(r)
        \/ \E param \in ProductParams, c \in CategoryParams :
               productUpdate_begin(r, param, [categoryId |-> c])
        \/ productUpdate_findById(r)
        \/ productUpdate_findCategory(r)
        \/ productUpdate_update(r)
        \/ \E param \in ProductParams : productDelete_begin(r, param)
        \/ productDelete_findById(r)
        \/ productDelete_delete(r)

SpecReference == Init /\ [][NextReference]_vars

(***************************************************************************)
(* SpecCategory: requests on categories alone, interleaved.                *)
(***************************************************************************)
NextCategory ==
    \E r \in Req :
        \/ \E raw \in KeyCategoryBodies : categoryCreate_begin(r, raw)
        \/ categoryCreate_findByName(r)
        \/ categoryCreate_create(r)
        \/ \E param \in CategoryParams, raw \in KeyCategoryBodies :
               categoryUpdate_begin(r, param, raw)
        \/ categoryUpdate_findById(r)
        \/ categoryUpdate_findByName(r)
        \/ categoryUpdate_update(r)
        \/ \E param \in CategoryParams : categoryDelete_begin(r, param)
        \/ categoryDelete_findById(r)
        \/ categoryDelete_hasProducts(r)
        \/ categoryDelete_delete(r)

SpecCategory == Init /\ [][NextCategory]_vars

(***************************************************************************)
(* SpecFields: one request, or toggles one after the other, on a table     *)
(* that earlier creates have filled.                                       *)
(* The bodies vary in every field, present, absent and null, and in white  *)
(* space around the strings.                                               *)
(***************************************************************************)
NotUuid == [uuid |-> FALSE, id |-> 0]

\* all records that give each key of a subset of keys one of its values
RECURSIVE Bodies(_, _)
Bodies(keys, values) ==
    IF keys = {} THEN {[k \in {} |-> 0]}
    ELSE LET k == CHOOSE x \in keys : TRUE
             rest == Bodies(keys \ {k}, values)
         IN  rest \cup {(k :> v) @@ b : v \in values[k], b \in rest}

SeedCategoryBodies ==
    <<[name |-> <<"a">>], [name |-> <<"b">>, description |-> <<"d">>]>>

\* the category table after the first n seed bodies were created
SeedCategories(n) ==
    [i \in 1..n |-> CategoryRow(i, createCategorySchema(SeedCategoryBodies[i]).data)]

SeedProductBodies ==
    {[name |-> <<"a">>, price |-> [num |-> 3], sku |-> <<"x">>, categoryId |-> Uuid(1)]
        @@ b : b \in Bodies({"description", "stock", "isActive"},
                            [description |-> {<<"d">>}, stock |-> {5},
                             isActive |-> {FALSE}])}

SecondProductBody ==
    [name |-> <<"b">>, price |-> [num |-> 4], sku |-> <<"y">>, stock |-> 1,
     categoryId |-> Uuid(1)]

\* the product tables after zero, one or two creates
SeedProducts ==
    {<<>>}
    \cup {<<ProductRow(1, createProductSchema(b).data)>> : b \in SeedProductBodies}
    \cup {<<ProductRow(1, createProductSchema(b).data),
            ProductRow(2, createProductSchema(SecondProductBody).data)>> :
              b \in SeedProductBodies}

InitFields ==
    /\ \E n \in 1..2 : /\ categories = SeedCategories(n)
                       /\ nextCatId = n + 1
    /\ products \in SeedProducts
    /\ nextProdId = Len(products) + 1
    /\ req = [r \in Req |-> Idle]

FieldCategoryCreateBodies ==
    {b \in Bodies({"name", "description"},
                  [name |-> {<<"c">>, <<" ", "c", " ">>, <<"a">>, <<>>, <<" ">>},
                   description |-> {Null, <<"e", " ">>}]) : "name" \in DOMAIN b}

FieldCategoryUpdateBodies ==
    Bodies({"name", "description"},
           [name |-> {<<"c", " ">>, <<"b">>},
            description |-> {Null, <<"e", " ">>}])

FieldProductCreateBodies ==
    {b \in Bodies(ProductFields,
                  [name |-> {<<"n", " ">>},
                   description |-> {Null, <<" ", "e">>},
                   price |-> {[num |-> 2], [str |-> <<"7">>], [str |-> <<"z">>],
                              [num |-> 0]},
                   stock |-> {5},
                   sku |-> {<<" ", "z">>, <<"x">>},
                   isActive |-> {FALSE},
                   categoryId |-> {Uuid(1)}]) :
        {"name", "price", "sku", "categoryId"} \subseteq DOMAIN b}

FieldProductUpdateBodies ==
    Bodies(ProductFields,
           [name |-> {<<" ", "n">>},
            description |-> {Null, <<"e", " ">>},
            price |-> {[str |-> <<"7">>]},
            stock |-> {9},
            sku |-> {<<"z", " ">>},
            isActive |-> {FALSE},
            categoryId |-> {Uuid(2)}])

FieldProductParams == {Uuid(1), Uuid(2), NotUuid}

NextFields ==
    \E r \in {1} :
        \/ /\ req[r].pc = "idle" \/ req[r].kind = "productToggle"
           /\ \E param \in FieldProductParams : productToggle_begin(r, param)
        \/ productToggle_findUnique(r)
        \/ productToggle_update(r)
        \/ /\ req[r].pc = "idle"
           /\ \/ \E raw \in FieldCategoryCreateBodies : categoryCreate_begin(r, raw)
              \/ \E param \in {Uuid(1), Uuid(2), NotUuid},
                      raw \in FieldCategoryUpdateBodies :
                     categoryUpdate_begin(r, param, raw)
              \/ \E raw \in FieldProductCreateBodies : productCreate_begin(r, raw)
              \/ \E param \in FieldProductParams, raw \in FieldProductUpdateBodies :
                     productUpdate_begin(r, param, raw)
        \/ categoryCreate_findByName(r)
        \/ categoryCreate_create(r)
        \/ categoryUpdate_findById(r)
        \/ categoryUpdate_findByName(r)
        \/ categoryUpdate_update(r)
        \/ productCreate_findCategory(r)
        \/ productCreate_findBySku(r)
        \/ productCreate_create(r)
        \/ productUpdate_findById(r)
        \/ productUpdate_findCategory(r)
        \/ productUpdate_findBySku(r)
        \/ productUpdate_update(r)

SpecFields == InitFields /\ [][NextFields]_vars

(***************************************************************************)
(* The list requests: query schemas.  A query value is a string, as the    *)
(* query parser gives it; sortBy and sortOrder are given as words.         *)
(***************************************************************************)
DefaultPage == 1
DefaultLimit == 10
LimitMax == 100

\* Number(s) on strings of digits, spaces and characters that are no part
\* of a numeric literal: white space around is dropped, the empty string
\* is 0, a string of digits is its value, anything else is NaN
Number(s) ==
    LET t == Trim(s)
    IN  IF \A i \in 1..Len(t) : IsDigit(t[i])
        THEN [nan |-> FALSE, value |-> DigitsPrefix(t, 0)]
        ELSE [nan |-> TRUE]

\* z.coerce.number().positive()
PositiveRuleOk(s) == ~Number(s).nan /\ Number(s).value > 0

True == <<"t", "r", "u", "e">>

\* page, limit and search, which both query schemas have
PagingRuleOk(raw) ==
    /\ "page" \in DOMAIN raw => PositiveRuleOk(raw.page)
    /\ "limit" \in DOMAIN raw =>
          PositiveRuleOk(raw.limit) /\ Number(raw.limit).value <= LimitMax

PagingValue(raw) ==
    [page |-> IF "page" \in DOMAIN raw THEN Number(raw.page).value ELSE DefaultPage,
     limit |-> IF "limit" \in DOMAIN raw THEN Number(raw.limit).value
               ELSE DefaultLimit]
    @@ Restrict(raw, {"search"})

categoryQuerySchema(raw) ==
    IF ~PagingRuleOk(raw) THEN [success |-> FALSE]
    ELSE [success |-> TRUE, data |-> PagingValue(raw)]

productQuerySchema(raw) ==
    LET ok == /\ PagingRuleOk(raw)
              /\ "categoryId" \in DOMAIN raw => raw.categoryId.uuid
              /\ "minPrice" \in DOMAIN raw => PositiveRuleOk(raw.minPrice)
              /\ "maxPrice" \in DOMAIN raw => PositiveRuleOk(raw.maxPrice)
              /\ "sortBy" \in DOMAIN raw
                 => raw.sortBy \in {"name", "price", "createdAt", "stock"}
              /\ "sortOrder" \in DOMAIN raw => raw.sortOrder \in {"asc", "desc"}
    IN  IF ~ok THEN [success |-> FALSE]
        ELSE [success |-> TRUE,
              data |->
                 [k \in (DOMAIN raw) \cap {"categoryId", "isActive", "minPrice",
                                           "maxPrice", "sortBy", "sortOrder"} |->
                     CASE k = "categoryId" -> raw.categoryId.id
                       [] k = "isActive" -> (raw.isActive = True)
                       [] k \in {"minPrice", "maxPrice"} -> Number(raw[k]).value
                       [] OTHER -> raw[k]]
                 @@ PagingValue(raw)
                 @@ [sortBy |-> "createdAt", sortOrder |-> "desc"]]

(***************************************************************************)
(* The list requests: services.  findMany and count are two statements.    *)
(***************************************************************************)
\* mode: 'insensitive', over the letters the model's strings use
Lower(c) == CASE c = "A" -> "a" [] c = "B" -> "b" [] OTHER -> c

LowerCase(s) == [i \in 1..Len(s) |-> Lower(s[i])]

\* { contains: search, mode: 'insensitive' }; a null column matches nothing
Contains(value, search) ==
    /\ value # Null
    /\ \E i \in 0..(Len(value) - Len(search)) :
          SubSeq(LowerCase(value), i + 1, i + Len(search)) = LowerCase(search)

\* `search && { OR: [...] }`: the empty string is no filter
Searched(query) == "search" \in DOMAIN query /\ query.search # <<>>

CategoryWhere(query, row) ==
    Searched(query) =>
        Contains(row.name, query.search) \/ Contains(row.description, query.search)

\* mutant: the price bounds are exclusive
ProductWhere_exclusive(query, row) ==
    /\ Searched(query) =>
          \/ Contains(row.name, query.search)
          \/ Contains(row.description, query.search)
          \/ Contains(row.sku, query.search)
    /\ "categoryId" \in DOMAIN query => row.categoryId = query.categoryId
    /\ "isActive" \in DOMAIN query => row.isActive = query.isActive
    /\ "minPrice" \in DOMAIN query => row.price > query.minPrice
    /\ "maxPrice" \in DOMAIN query => row.price < query.maxPrice

\* the where clause of productService.findAll
ProductWhere(query, row) ==
    /\ Searched(query) =>
          \/ Contains(row.name, query.search)
          \/ Contains(row.description, query.search)
          \/ Contains(row.sku, query.search)
    /\ "categoryId" \in DOMAIN query => row.categoryId = query.categoryId
    /\ "isActive" \in DOMAIN query => row.isActive = query.isActive
    /\ "minPrice" \in DOMAIN query => row.price >= query.minPrice
    /\ "maxPrice" \in DOMAIN query => row.price <= query.maxPrice

\* all orders of the ids
Orders(ids) ==
    {o \in [1..Cardinality(ids) -> ids] : \A i, j \in DOMAIN o : o[i] = o[j] => i = j}

\* orderBy: rows are created in the order of their ids, so createdAt orders
\* as the id does; price and stock order as numbers, rows that tie in any
\* order; the order of names is the database collation's, any order
OrderedBy(o, table, sortBy, sortOrder) ==
    LET key(i) == CASE sortBy = "createdAt" -> table[i].id
                    [] sortBy = "price" -> table[i].price
                    [] sortBy = "stock" -> table[i].stock
                    [] OTHER -> 0
    IN  \A i, j \in DOMAIN o :
            i < j => IF sortOrder = "asc" THEN key(o[i]) <= key(o[j])
                     ELSE key(o[i]) >= key(o[j])

\* skip and take over an order
Page(o, skip, take) == SubSeq(o, skip + 1, Min(Len(o), skip + take))

Skip(query) == (query.page - 1) * query.limit

\* prisma.product.findMany({ where, skip, take, orderBy, include }): the
\* pages the statement can return
productService_findMany(query) ==
    LET ids == {i \in DOMAIN products : ProductWhere(query, products[i])}
    IN  {[k \in DOMAIN Page(o, Skip(query), query.limit) |->
            WithCategory(products[Page(o, Skip(query), query.limit)[k]], categories)] :
         o \in {x \in Orders(ids) :
                  OrderedBy(x, products, query.sortBy, query.sortOrder)}}

\* prisma.product.count({ where })
productService_count(query) ==
    Cardinality({i \in DOMAIN products : ProductWhere(query, products[i])})

\* include: { _count: { select: { products: true } } }
WithProductCount(row) ==
    row @@ [productCount |->
              Cardinality({p \in DOMAIN products : products[p].categoryId = row.id})]

\* prisma.category.findMany({ where, skip, take, orderBy: createdAt desc })
categoryService_findMany(query) ==
    LET ids == {i \in DOMAIN categories : CategoryWhere(query, categories[i])}
    IN  {[k \in DOMAIN Page(o, Skip(query), query.limit) |->
            WithProductCount(categories[Page(o, Skip(query), query.limit)[k]])] :
         o \in {x \in Orders(ids) : OrderedBy(x, categories, "createdAt", "desc")}}

\* prisma.category.count({ where })
categoryService_count(query) ==
    Cardinality({i \in DOMAIN categories : CategoryWhere(query, categories[i])})

\* mutant: the pages are counted without the last, partly filled one
TotalPages_floor(total, limit) == total \div limit

\* Math.ceil(total / limit)
TotalPages(total, limit) == (total + limit - 1) \div limit

\* the meta findAll returns
Meta(query, total) ==
    [page |-> query.page, limit |-> query.limit, total |-> total,
     totalPages |-> TotalPages(total, query.limit)]

\* sendSuccess with the meta argument
sendSuccessMeta(data, message, statusCode, meta) ==
    sendSuccess(data, message, statusCode) @@ [meta |-> meta]

(***************************************************************************)
(* productController.getAll and categoryController.getAll.  Promise.all    *)
(* issues findMany and count together: they run in either order, and the   *)
(* handler responds when both have returned.                               *)
(***************************************************************************)
getAll_begin(r, kind, raw, queryResult) ==
    /\ Accepts(r)
    /\ LET this == [kind |-> kind, raw |-> raw]
       IN  req' = [req EXCEPT ![r] =
                IF ~queryResult.success
                THEN this @@ [pc |-> "done",
                              resp |-> sendBadRequest("Invalid query parameters")]
                ELSE this @@ [pc |-> "findAll", resp |-> NoResponse,
                              query |-> queryResult.data]]
    /\ UNCHANGED <<categories, products, nextCatId, nextProdId>>

\* one statement of the two returns: the handler responds if it is the last
getAll_returns(r, field, value, message) ==
    LET got == (field :> value) @@ req[r]
    IN  IF {"items", "total"} \subseteq DOMAIN got
        THEN Respond(r, sendSuccessMeta(got.items, message, 200,
                                        Meta(req[r].query, got.total)))
        ELSE req' = [req EXCEPT ![r] = got]

productGetAll_begin(r, raw) ==
    getAll_begin(r, "productGetAll", raw, productQuerySchema(raw))

productGetAll_findMany(r) ==
    /\ req[r].kind = "productGetAll" /\ req[r].pc = "findAll"
    /\ "items" \notin DOMAIN req[r]
    /\ \E items \in productService_findMany(req[r].query) :
          getAll_returns(r, "items", items, "Products retrieved successfully")
    /\ UNCHANGED <<categories, products, nextCatId, nextProdId>>

productGetAll_count(r) ==
    /\ req[r].kind = "productGetAll" /\ req[r].pc = "findAll"
    /\ "total" \notin DOMAIN req[r]
    /\ getAll_returns(r, "total", productService_count(req[r].query),
                      "Products retrieved successfully")
    /\ UNCHANGED <<categories, products, nextCatId, nextProdId>>

categoryGetAll_begin(r, raw) ==
    getAll_begin(r, "categoryGetAll", raw, categoryQuerySchema(raw))

categoryGetAll_findMany(r) ==
    /\ req[r].kind = "categoryGetAll" /\ req[r].pc = "findAll"
    /\ "items" \notin DOMAIN req[r]
    /\ \E items \in categoryService_findMany(req[r].query) :
          getAll_returns(r, "items", items, "Categories retrieved successfully")
    /\ UNCHANGED <<categories, products, nextCatId, nextProdId>>

categoryGetAll_count(r) ==
    /\ req[r].kind = "categoryGetAll" /\ req[r].pc = "findAll"
    /\ "total" \notin DOMAIN req[r]
    /\ getAll_returns(r, "total", categoryService_count(req[r].query),
                      "Categories retrieved successfully")
    /\ UNCHANGED <<categories, products, nextCatId, nextProdId>>

(***************************************************************************)
(* The list specification: one list request over tables that earlier       *)
(* creates have filled.                                                    *)
(***************************************************************************)
\* the most products the listed table holds
MaxListed == 3

\* what the creates of the listed products were given, without the sku
ListedBodies ==
    {[name |-> <<"a">>, price |-> [num |-> 1], categoryId |-> Uuid(1)],
     [name |-> <<"A", "b">>, description |-> <<"a">>, price |-> [num |-> 2],
      stock |-> 1, isActive |-> FALSE, categoryId |-> Uuid(1)],
     [name |-> <<"b">>, price |-> [str |-> <<"3">>], stock |-> 1,
      categoryId |-> Uuid(2)]}

\* the product tables of n rows, each with a sku of its own, in nCat categories
ListedProducts(n, nCat) ==
    {[i \in 1..n |->
        ProductRow(i, createProductSchema(t[i] @@ [sku |-> <<"s", Digits[i + 1]>>]).data)] :
     t \in [1..n -> {b \in ListedBodies : b.categoryId.id <= nCat}]}

InitList ==
    /\ \E nCat \in 0..Len(SeedCategoryBodies), n \in 0..MaxListed :
          /\ categories = SeedCategories(nCat)
          /\ nextCatId = nCat + 1
          /\ products \in ListedProducts(n, nCat)
          /\ nextProdId = n + 1
    /\ req = [r \in Req |-> Idle]

\* queries that page through a table
PageQueries ==
    Bodies({"page", "limit", "maxPrice", "sortBy"},
           [page |-> {<<"1">>, <<"2">>, <<"5">>, <<"0">>},
            limit |-> {<<"1">>, <<"2">>, <<"1", "0", "1">>},
            maxPrice |-> {<<"2">>},
            sortBy |-> {"price"}])

\* queries that filter a table
FilterQueries ==
    Bodies({"minPrice", "maxPrice", "isActive", "search", "categoryId", "limit"},
           [minPrice |-> {<<"2">>, <<"0">>},
            maxPrice |-> {<<"2">>, <<"1">>},
            isActive |-> {True, <<"f", "a", "l", "s", "e">>},
            search |-> {<<"a">>},
            categoryId |-> {Uuid(1)},
            limit |-> {<<"2">>}])

\* queries with a sort that is not the default, or not one
SortQueries ==
    Bodies({"sortBy", "sortOrder", "search"},
           [sortBy |-> {"name", "stock", "id"},
            sortOrder |-> {"asc", "up"},
            search |-> {<<>>}])

CategoryQueries ==
    Bodies({"page", "limit", "search"},
           [page |-> {<<"1">>, <<"2">>, <<"5">>, <<"x">>},
            limit |-> {<<"1">>, <<"1", "0", "1">>},
            search |-> {<<"a">>, <<>>}])

NextList ==
    \E r \in {1} :
        \/ /\ req[r].pc = "idle"
           /\ \/ \E raw \in PageQueries \cup FilterQueries \cup SortQueries :
                     productGetAll_begin(r, raw)
              \/ \E raw \in CategoryQueries : categoryGetAll_begin(r, raw)
        \/ productGetAll_findMany(r)
        \/ productGetAll_count(r)
        \/ categoryGetAll_findMany(r)
        \/ categoryGetAll_count(r)

SpecList == InitList /\ [][NextList]_vars

(***************************************************************************)
(* SpecStock: the calls and requests that write stock, interleaved.        *)
(***************************************************************************)
\* the stock of a product stays within MaxStock of zero
MaxStock == 3

InitStock ==
    /\ categories = SeedCategories(1)
    /\ nextCatId = 2
    /\ products \in {<<>>, <<ProductRow(1, createProductSchema(SecondProductBody).data)>>}
    /\ nextProdId = Len(products) + 1
    /\ req = [r \in Req |-> Idle]

NextStock ==
    \E r \in Req :
        \/ \E id \in DOMAIN products, quantity \in {-2, 1} :
              /\ products[id].stock + quantity \in (-MaxStock)..MaxStock
              /\ updateStock_begin(r, id, quantity)
        \/ updateStock_update(r)
        \/ \E raw \in {[stock |-> 0], [stock |-> -1]} : productUpdate_begin(r, Uuid(1), raw)
        \/ productUpdate_findById(r)
        \/ productUpdate_update(r)
        \/ productCreate_begin(r, [name |-> <<"c">>, price |-> [num |-> 1],
                                   sku |-> <<"z">>, stock |-> 2,
                                   categoryId |-> Uuid(1)])
        \/ productCreate_findCategory(r)
        \/ productCreate_findBySku(r)
        \/ productCreate_create(r)

SpecStock == InitStock /\ [][NextStock]_vars

(***************************************************************************)
(* SpecSequence: creates and updates one after the other, with names and   *)
(* skus that are white space.                                              *)
(***************************************************************************)
SequenceNames == {<<"a">>, <<" ">>}

SequenceSkus == {<<"x">>, <<" ">>}

NextSequence ==
    \E r \in {1} :
        \/ \E n \in SequenceNames : categoryCreate_begin(r, [name |-> n])
        \/ categoryCreate_findByName(r)
        \/ categoryCreate_create(r)
        \/ \E param \in CategoryParams,
                raw \in {[name |-> n] : n \in SequenceNames \cup {<<"b">>}}
                        \cup {[description |-> <<"e">>]} :
               categoryUpdate_begin(r, param, raw)
        \/ categoryUpdate_findById(r)
        \/ categoryUpdate_findByName(r)
        \/ categoryUpdate_update(r)
        \/ \E k \in SequenceSkus : productCreate_begin(r, KeyProductBody(k, Uuid(1)))
        \/ productCreate_findCategory(r)
        \/ productCreate_findBySku(r)
        \/ productCreate_create(r)
        \/ \E param \in ProductParams,
                raw \in {[sku |-> k] : k \in SequenceSkus \cup {<<"y">>}}
                        \cup {[categoryId |-> Uuid(2)],
                              [sku |-> <<"x">>, categoryId |-> Uuid(2)]} :
               productUpdate_begin(r, param, raw)
        \/ productUpdate_findById(r)
        \/ productUpdate_findCategory(r)
        \/ productUpdate_findBySku(r)
        \/ productUpdate_update(r)

SpecSequence == Init /\ [][NextSequence]_vars

(***************************************************************************)
(* categoryController.getById and productController.getById                *)
(***************************************************************************)
getById_begin(r, kind, param) ==
    /\ Accepts(r)
    /\ kind \in {"categoryGetById", "productGetById"}
    /\ LET paramResult == IF kind = "categoryGetById"
                          THEN categoryIdParamSchema(param)
                          ELSE productIdParamSchema(param)
           this == [kind |-> kind, param |-> param]
       IN  req' = [req EXCEPT ![r] =
                IF ~paramResult.success
                THEN this @@ [pc |-> "done",
                              resp |-> sendBadRequest(IF kind = "categoryGetById"
                                                      THEN "Invalid category ID"
                                                      ELSE "Invalid product ID")]
                ELSE this @@ [pc |-> "findById", resp |-> NoResponse,
                              id |-> paramResult.data.id]]
    /\ UNCHANGED <<categories, products, nextCatId, nextProdId>>

getById_findById(r) ==
    /\ req[r].kind \in {"categoryGetById", "productGetById"}
    /\ req[r].pc = "findById"
    /\ IF req[r].kind = "categoryGetById"
       THEN IF categoryService_findById(req[r].id) = {}
            THEN Respond(r, sendNotFound("Category not found"))
            ELSE \E category \in categoryService_findById(req[r].id) :
                    Respond(r, sendSuccess(WithProductCount(category),
                                           "Category retrieved successfully", 200))
       ELSE IF productService_findById(req[r].id) = {}
            THEN Respond(r, sendNotFound("Product not found"))
            ELSE \E product \in productService_findById(req[r].id) :
                    Respond(r, sendSuccess(product,
                                           "Product retrieved successfully", 200))
    /\ UNCHANGED <<categories, products, nextCatId, nextProdId>>

(***************************************************************************)
(* SpecFailure: every handler of the two controllers on one request, over  *)
(* a database whose calls return or throw.                                 *)
(***************************************************************************)
\* mutant: the handler's catch drops the error and answers 200
databaseCall_throws_dropped(r, err) ==
    /\ ~Free(r)
    /\ req' = [req EXCEPT ![r] =
                 Restrict(@, {"kind", "param", "raw"})
                 @@ [pc |-> "done", resp |-> sendSuccess(Null, "Success", 200),
                     thrown |-> err]]
    /\ UNCHANGED <<categories, products, nextCatId, nextProdId>>

\* the awaited database call of request r throws err: the handler's catch
\* passes it to next(error); the request keeps what was thrown
databaseCall_throws(r, err) ==
    /\ ~Free(r)
    /\ req' = [req EXCEPT ![r] =
                 Restrict(@, {"kind", "param", "raw"})
                 @@ [pc |-> "done", resp |-> errorHandler(err, NODE_ENV),
                     thrown |-> err]]
    /\ UNCHANGED <<categories, products, nextCatId, nextProdId>>

NextFailure ==
    \E r \in {1} :
        \/ /\ req[r].pc = "idle"
           /\ \/ \E raw \in {<<>>, [page |-> <<"0">>]} :
                      \/ productGetAll_begin(r, raw)
                      \/ categoryGetAll_begin(r, raw)
              \/ \E kind \in {"categoryGetById", "productGetById"},
                      param \in {Uuid(1), Uuid(2), NotUuid} :
                      getById_begin(r, kind, param)
              \/ \E raw \in {[name |-> <<"a">>], [name |-> <<"c">>], [name |-> <<>>]} :
                      categoryCreate_begin(r, raw)
              \/ \E param \in {Uuid(1), Uuid(2), NotUuid},
                      raw \in {[name |-> <<"a">>], [description |-> <<"e">>]} :
                      categoryUpdate_begin(r, param, raw)
              \/ \E param \in {Uuid(1), Uuid(2), NotUuid} : categoryDelete_begin(r, param)
              \/ \E k \in KeySkus, c \in {Uuid(1), Uuid(2)} :
                      productCreate_begin(r, KeyProductBody(k, c))
              \/ \E param \in {Uuid(1), Uuid(2), NotUuid},
                      raw \in {[sku |-> <<"x">>, categoryId |-> Uuid(2)], [stock |-> -1]} :
                      productUpdate_begin(r, param, raw)
              \/ \E param \in {Uuid(1), Uuid(2), NotUuid} : productDelete_begin(r, param)
              \/ \E param \in {Uuid(1), Uuid(2), NotUuid} : productToggle_begin(r, param)
        \/ \E err \in {KnownRequestError("P2024", ""),
                      [name |-> "PrismaClientUnknownRequestError"],
                      [name |-> "PrismaClientInitializationError"],
                      [name |-> "PrismaClientValidationError"]} :
              databaseCall_throws(r, err)
        \/ productGetAll_findMany(r)
        \/ productGetAll_count(r)
        \/ categoryGetAll_findMany(r)
        \/ categoryGetAll_count(r)
        \/ getById_findById(r)
        \/ categoryCreate_findByName(r)
        \/ categoryCreate_create(r)
        \/ categoryUpdate_findById(r)
        \/ categoryUpdate_findByName(r)
        \/ categoryUpdate_update(r)
        \/ categoryDelete_findById(r)
        \/ categoryDelete_hasProducts(r)
        \/ categoryDelete_delete(r)
        \/ productCreate_findCategory(r)
        \/ productCreate_findBySku(r)
        \/ productCreate_create(r)
        \/ productUpdate_findById(r)
        \/ productUpdate_findCategory(r)
        \/ productUpdate_findBySku(r)
        \/ productUpdate_update(r)
        \/ productDelete_findById(r)
        \/ productDelete_delete(r)
        \/ productToggle_findUnique(r)
        \/ productToggle_update(r)

SpecFailure == InitFields /\ [][NextFailure]_vars

\* every database call that is awaited returns or throws
SpecFailureFair == SpecFailure /\ WF_vars(NextFailure)

(***************************************************************************)
(* SpecRace: two requests at once, each slot taking one request: toggles   *)
(* of a product, and lists beside the creates and deletes of rows.         *)
(***************************************************************************)
NextRace ==
    \E r \in Req :
        \/ /\ req[r].pc = "idle"
           /\ \/ productToggle_begin(r, Uuid(1))
              \/ productDelete_begin(r, Uuid(1))
              \/ productCreate_begin(r, KeyProductBody(<<"x">>, Uuid(1)))
              \/ categoryCreate_begin(r, [name |-> <<"c">>])
              \/ categoryDelete_begin(r, Uuid(1))
              \/ \E raw \in {<<>>, [limit |-> <<"1">>]} :
                    \/ productGetAll_begin(r, raw)
                    \/ categoryGetAll_begin(r, raw)
        \/ productToggle_findUnique(r)
        \/ productToggle_update(r)
        \/ productDelete_findById(r)
        \/ productDelete_delete(r)
        \/ productCreate_findCategory(r)
        \/ productCreate_findBySku(r)
        \/ productCreate_create(r)
        \/ categoryCreate_findByName(r)
        \/ categoryCreate_create(r)
        \/ categoryDelete_findById(r)
        \/ categoryDelete_hasProducts(r)
        \/ categoryDelete_delete(r)
        \/ productGetAll_findMany(r)
        \/ productGetAll_count(r)
        \/ categoryGetAll_findMany(r)
        \/ categoryGetAll_count(r)

SpecRace == InitStock /\ [][NextRace]_vars

(***************************************************************************)
(* SpecErrors: a handler passes what it caught to next(error), and the     *)
(* error handler answers.                                                  *)
(***************************************************************************)
ErrorNames ==
    {"ZodError", "PrismaClientKnownRequestError", "PrismaClientValidationError",
     "PrismaClientUnknownRequestError", "PrismaClientInitializationError",
     "Error", "TypeError"}

ErrorCodes == {"P2002", "P2025", "P2003", "P2000", "P1001"}

\* the errors a handler can catch: with a name and a message, and some with
\* a code and the fields of a constraint
Errors ==
    {e @@ [message |-> m] :
        e \in {[name |-> n] : n \in ErrorNames}
              \cup {[name |-> n, code |-> c] : n \in ErrorNames, c \in ErrorCodes}
              \cup {[name |-> n, code |-> c, target |-> t] :
                      n \in ErrorNames, c \in ErrorCodes, t \in {"sku", "name", ""}},
        m \in {"", "connect ECONNREFUSED", "secret"}}

\* catch (error) { next(error) }, in a process started with env: the
\* request's param keeps the environment
next_error(r, err, env) ==
    /\ Accepts(r)
    /\ req' = [req EXCEPT ![r] =
                 [kind |-> "next", raw |-> err, param |-> env,
                  pc |-> "errorHandler", resp |-> NoResponse]]
    /\ UNCHANGED <<categories, products, nextCatId, nextProdId>>

errorHandler_responds(r) ==
    /\ req[r].kind = "next" /\ req[r].pc = "errorHandler"
    /\ Respond(r, errorHandler(req[r].raw, req[r].param))
    /\ UNCHANGED <<categories, products, nextCatId, nextProdId>>

NextErrors ==
    \E r \in {1} :
        \* process.env.NODE_ENV as the error handler finds it; "undefined"
        \* when it is not set
        \/ \E err \in Errors,
                env \in {"development", "production", "test", "undefined"} :
              next_error(r, err, env)
        \/ errorHandler_responds(r)

SpecErrors == Init /\ [][NextErrors]_vars

(***************************************************************************)
(* Properties.                                                             *)
(***************************************************************************)
\* request r takes a step
Steps(r) == req'[r] # req[r]

\* request r is answered in this step
Ends(r) == Steps(r) /\ req'[r].pc = "done"

\* request r is of this kind and not answered yet
Handling(r, kind) == req[r].kind = kind /\ ~Free(r)

Answered(r, kind, status) ==
    req[r].kind = kind /\ req[r].pc = "done" /\ req[r].resp.status = status

SkuUnique ==
    \A i, j \in DOMAIN products : products[i].sku = products[j].sku => i = j

\* C1, as stated: a POST /products whose sku a stored product holds is
\* always answered with 409 and adds no row.
C1_DuplicateSkuAlways409 ==
    [][\A r \in Req :
          (/\ Handling(r, "productCreate")
           /\ Ends(r)
           /\ ProductSkuTaken(req[r].body.sku, 0))
          => (req'[r].resp.status = 409 /\ products' = products)]_vars

\* C1, amended: a POST /products with a valid body that references a stored
\* category, whose sku a stored product holds when the handler looks the
\* sku up, is answered with 409 and adds no row; and in every reachable
\* state no two stored products share a sku.
C1_DuplicateSkuConflict ==
    /\ []SkuUnique
    /\ [][\A r \in Req :
            (/\ Handling(r, "productCreate")
             /\ req[r].pc = "findBySku"
             /\ Steps(r)
             /\ ProductSkuTaken(req[r].body.sku, 0))
            => (req'[r].resp.status = 409 /\ products' = products)]_vars

\* a POST /products was answered 409 while another product is stored
C1_Witness ==
    /\ \E r \in Req : Answered(r, "productCreate", 409)
    /\ products # <<>>

\* C2: when two POST /products with the same sku both pass the sku check
\* before either inserts, at most one product with the sku is stored, and
\* the request whose insert the unique constraint rejects is answered 409.
C2_RaceAnswered409 ==
    /\ []SkuUnique
    /\ [][\A r \in Req :
            (/\ Handling(r, "productCreate")
             /\ req[r].pc = "create"
             /\ Steps(r)
             /\ ProductSkuTaken(req[r].body.sku, 0))
            => req'[r].resp.status = 409]_vars

NameUnique ==
    \A i, j \in DOMAIN categories : categories[i].name = categories[j].name => i = j

C4_DeleteBlockedOrDone ==
    [][\A r \in Req :
          (/\ Handling(r, "categoryDelete")
           /\ Ends(r)
           /\ req[r].id \in DOMAIN categories)
          => IF CategoryReferenced(req[r].id)
             THEN req'[r].resp.status = 409 /\ req[r].id \in DOMAIN categories'
             ELSE req'[r].resp.status = 204 /\ req[r].id \notin DOMAIN categories']_vars

\* C5: in every reachable state every stored product's categoryId is the
\* id of a stored category.
C5_CategoryReferenceHeld ==
    \A p \in DOMAIN products : products[p].categoryId \in DOMAIN categories

\* the foreign key stopped a product create or update that had passed the
\* category check, while a category delete went through
C5_Witness ==
    /\ \E r \in Req :
          /\ req[r].kind \in {"productCreate", "productUpdate"}
          /\ req[r].pc = "done"
          /\ req[r].resp = sendBadRequest("Referenced record does not exist")
    /\ \E r \in Req : Answered(r, "categoryDelete", 204)

\* the record returned has the stored row's fields
Returns(response, row) ==
    /\ "data" \in DOMAIN response
    /\ \A f \in DOMAIN row : response.data[f] = row[f]

\* C6: an update of a stored record with an empty body leaves every stored
\* field of the record unchanged and returns the unchanged record with
\* status 200, for both entities.
C6_EmptyUpdateNoOp ==
    [][\A r \in Req :
          /\ (/\ Handling(r, "productUpdate")
              /\ Ends(r)
              /\ DOMAIN req[r].raw = {}
              /\ req[r].id \in DOMAIN products)
             => /\ products' = products
                /\ req'[r].resp.status = 200
                /\ Returns(req'[r].resp, products[req[r].id])
          /\ (/\ Handling(r, "categoryUpdate")
              /\ Ends(r)
              /\ DOMAIN req[r].raw = {}
              /\ req[r].id \in DOMAIN categories)
             => /\ categories' = categories
                /\ req'[r].resp.status = 200
                /\ Returns(req'[r].resp, categories[req[r].id])]_vars

\* an update with an empty body was answered 200 for a stored product
C6_Witness ==
    \E r \in Req :
        /\ Answered(r, "productUpdate", 200)
        /\ DOMAIN req[r].raw = {}
        /\ req[r].param.id \in DOMAIN products
        /\ products[req[r].param.id].stock = 5

\* an update of table[id] by data changed exactly the fields data holds
ChangedExactly(before, after, id, data, fields) ==
    /\ DOMAIN after = DOMAIN before
    /\ \A i \in (DOMAIN before) \ {id} : after[i] = before[i]
    /\ \A f \in DOMAIN before[id] :
          after[id][f] = IF f \in fields /\ f \in DOMAIN data
                         THEN data[f] ELSE before[id][f]

\* C7: an update that is applied changes exactly the fields present in the
\* validated body: an absent field keeps its stored value, a present field
\* takes the value supplied, a null description is stored as null, and no
\* other record is modified.
C7_UpdateChangesPresentFields ==
    [][\A r \in Req :
          /\ (/\ Handling(r, "productUpdate")
              /\ Ends(r)
              /\ req'[r].resp.status = 200)
             => /\ ChangedExactly(products, products', req[r].id, req[r].body,
                                  ProductFields)
                /\ categories' = categories
          /\ (/\ Handling(r, "categoryUpdate")
              /\ Ends(r)
              /\ req'[r].resp.status = 200)
             => /\ ChangedExactly(categories, categories', req[r].id, req[r].body,
                                  {"name", "description"})
                /\ products' = products]_vars

\* an update that gave a null description and no stock was applied to one
\* of two stored products
C7_Witness ==
    \E r \in Req :
        /\ Answered(r, "productUpdate", 200)
        /\ "description" \in DOMAIN req[r].raw /\ req[r].raw.description = Null
        /\ "name" \in DOMAIN req[r].raw
        /\ "stock" \notin DOMAIN req[r].raw
        /\ Cardinality(DOMAIN products) = 2
        /\ products[req[r].param.id].description = Null
        /\ products[req[r].param.id].stock = 5

\* the value a body gives for a field, a price as the number it denotes
Given(raw, f) ==
    CASE f = "price" -> priceTransform(raw.price).value
      [] f = "categoryId" -> raw.categoryId.id
      [] OTHER -> raw[f]

\* the value a body gives for a field after the schema's normalisation:
\* strings without the white space around them
Normalised(raw, f) ==
    CASE f \in {"name", "sku"} -> Trim(raw[f])
      [] f = "description" -> IF raw[f] = Null THEN Null ELSE Trim(raw[f])
      [] OTHER -> Given(raw, f)

Defaults == [stock |-> 0, isActive |-> TRUE, description |-> Null]

\* the row is stored under its id and returned
StoredAndReturned(table, response, row) ==
    /\ row.id \in DOMAIN table
    /\ table[row.id] = row
    /\ Returns(response, row)

\* C8, as stated: the record a create stores and returns has each field
\* equal to the value given in the body, and the declared default for an
\* omitted optional field.
C8_CreatedEqualsGiven ==
    [][\A r \in Req :
          /\ (Handling(r, "productCreate") /\ Ends(r) /\ req'[r].resp.status = 201)
             => \A f \in ProductFields :
                   products'[nextProdId][f] =
                       IF f \in DOMAIN req[r].raw THEN Given(req[r].raw, f)
                       ELSE Defaults[f]
          /\ (Handling(r, "categoryCreate") /\ Ends(r) /\ req'[r].resp.status = 201)
             => \A f \in {"name", "description"} :
                   categories'[nextCatId][f] =
                       IF f \in DOMAIN req[r].raw THEN req[r].raw[f]
                       ELSE Defaults[f]]_vars

\* C8, amended: the record a create stores and returns has each field equal
\* to the value given in the body, a string without the white space around
\* it and a numeric-string price as its number, and the declared default
\* for an omitted optional field: stock 0, isActive true, description null.
C8_CreatedEqualsNormalised ==
    [][\A r \in Req :
          /\ (Handling(r, "productCreate") /\ Ends(r) /\ req'[r].resp.status = 201)
             => /\ \A f \in ProductFields :
                      products'[nextProdId][f] =
                          IF f \in DOMAIN req[r].raw THEN Normalised(req[r].raw, f)
                          ELSE Defaults[f]
                /\ StoredAndReturned(products', req'[r].resp, products'[nextProdId])
          /\ (Handling(r, "categoryCreate") /\ Ends(r) /\ req'[r].resp.status = 201)
             => /\ \A f \in {"name", "description"} :
                      categories'[nextCatId][f] =
                          IF f \in DOMAIN req[r].raw THEN Normalised(req[r].raw, f)
                          ELSE Defaults[f]
                /\ StoredAndReturned(categories', req'[r].resp,
                                     categories'[nextCatId])]_vars

\* a product was created from a body without stock, isActive and
\* description, with white space around its name and a string price
C8_Witness ==
    \E r \in Req :
        /\ Answered(r, "productCreate", 201)
        /\ DOMAIN req[r].raw = {"name", "price", "sku", "categoryId"}
        /\ "str" \in DOMAIN req[r].raw.price
        /\ req[r].raw.name # Trim(req[r].raw.name)
        /\ products[req[r].resp.data.id].stock = 0
        /\ products[req[r].resp.data.id].isActive
        /\ products[req[r].resp.data.id].description = Null

\* the list request as the schema accepted it
ProductQuery(r) == productQuerySchema(req[r].raw).data
CategoryQuery(r) == categoryQuerySchema(req[r].raw).data

\* a product has the price, the category and the state the query asks for,
\* and the text searched for in its name, description or sku
Matches(r, p) ==
    LET q == ProductQuery(r)
    IN  /\ "minPrice" \in DOMAIN q => q.minPrice <= products[p].price
        /\ "maxPrice" \in DOMAIN q => products[p].price <= q.maxPrice
        /\ "categoryId" \in DOMAIN q => products[p].categoryId = q.categoryId
        /\ "isActive" \in DOMAIN q => products[p].isActive = q.isActive
        /\ Searched(q) => \E f \in {"name", "description", "sku"} :
                              Contains(products[p][f], q.search)

\* the least number of pages of size l that hold n rows
Ceiling(n, l) == CHOOSE k \in 0..n : k * l >= n /\ (k = 0 \/ (k - 1) * l < n)

\* the response has the meta of n matching rows and no item beyond them
PagedMeta(response, page, limit, n) ==
    /\ response.status = 200
    /\ response.meta.total = n
    /\ response.meta.totalPages = Ceiling(n, limit)
    /\ response.meta.page = page /\ response.meta.limit = limit
    /\ page > response.meta.totalPages => response.data = <<>>

\* C9: an accepted list request over N matching rows with page size L is
\* answered with meta.totalPages = ceil(N/L) and meta.total = N; when its
\* page is greater than totalPages it is answered with status 200, no item
\* and the same meta, for both entities.
C9_PaginationMeta ==
    [][\A r \in Req :
          /\ (Handling(r, "productGetAll") /\ Ends(r))
             => PagedMeta(req'[r].resp, ProductQuery(r).page, ProductQuery(r).limit,
                          Cardinality({p \in DOMAIN products : Matches(r, p)}))
          /\ (Handling(r, "categoryGetAll") /\ Ends(r))
             => PagedMeta(req'[r].resp, CategoryQuery(r).page, CategoryQuery(r).limit,
                          Cardinality({c \in DOMAIN categories :
                                          CategoryWhere(CategoryQuery(r), categories[c])}))]_vars

\* page 5 of three products in pages of two was answered with no item,
\* total 3 and totalPages 2
C9_Witness ==
    \E r \in Req :
        /\ Answered(r, "productGetAll", 200)
        /\ "page" \in DOMAIN req[r].raw /\ req[r].raw.page = <<"5">>
        /\ req[r].resp.meta.total = 3
        /\ req[r].resp.meta.limit = 2
        /\ req[r].resp.meta.totalPages = 2
        /\ req[r].resp.data = <<>>

\* C10: a product list with minPrice and/or maxPrice returns only products
\* with minPrice <= price and price <= maxPrice, and every product that
\* matches all the filters given is in the set that is paged and counted:
\* total counts them all, and the page holds as many of them, each once, as
\* the page's place among them leaves.
C10_PriceFilterInclusive ==
    [][\A r \in Req :
          (Handling(r, "productGetAll") /\ Ends(r) /\ req'[r].resp.status = 200)
          => LET q == ProductQuery(r)
                 data == req'[r].resp.data
                 n == Cardinality({p \in DOMAIN products : Matches(r, p)})
             IN  /\ \A k \in DOMAIN data :
                       /\ data[k].id \in DOMAIN products
                       /\ Matches(r, data[k].id)
                       /\ Returns([data |-> data[k]], products[data[k].id])
                 /\ \A j, k \in DOMAIN data : data[j].id = data[k].id => j = k
                 /\ req'[r].resp.meta.total = n
                 /\ Len(data) = Min(q.limit, Max(0, n - (q.page - 1) * q.limit))]_vars

\* a list with minPrice 2 and maxPrice 2 returned a product of price 2
\* while products of price 1 and 3 are stored
C10_Witness ==
    \E r \in Req :
        /\ Answered(r, "productGetAll", 200)
        /\ {"minPrice", "maxPrice"} \subseteq DOMAIN req[r].raw
        /\ req[r].raw.minPrice = <<"2">> /\ req[r].raw.maxPrice = <<"2">>
        /\ \E k \in DOMAIN req[r].resp.data : req[r].resp.data[k].price = 2
        /\ \E p \in DOMAIN products : products[p].price = 1
        /\ \E p \in DOMAIN products : products[p].price = 3

\* the product table with the flag of one product set, all else as it was
WithFlag(table, id, flag) ==
    [i \in DOMAIN table |->
        [f \in DOMAIN table[i] |->
            IF i = id /\ f = "isActive" THEN flag ELSE table[i][f]]]

\* the row after two toggles, each reading the flag the row has
ToggledTwice(row) ==
    LET once == ToggledRow(row, row.isActive)
    IN  ToggledRow(once, once.isActive)

\* C11: PATCH /products/:id/toggle-active on a stored product answers 200
\* with a record whose isActive is the negation of the stored value, stores
\* it and leaves every other field and row unchanged; on an id with no
\* stored product it answers 404 and changes nothing; toggling a stored
\* product twice, one after the other, gives back the flag it had.
C11_ToggleNegates ==
    /\ [][\A r \in Req :
            (Handling(r, "productToggle") /\ Ends(r))
            => IF req[r].id \in DOMAIN products
               THEN /\ req'[r].resp.status = 200
                    /\ req'[r].resp.data.isActive = ~products[req[r].id].isActive
                    /\ products' = WithFlag(products, req[r].id,
                                            ~products[req[r].id].isActive)
                    /\ Returns(req'[r].resp, products'[req[r].id])
               ELSE /\ req'[r].resp.status = 404
                    /\ products' = products]_vars
    /\ [](\A p \in DOMAIN products : ToggledTwice(products[p]) = products[p])

\* a toggle of a stored product was answered 200 with the flag off
C11_Witness ==
    \E r \in Req :
        /\ Answered(r, "productToggle", 200)
        /\ req[r].param.id \in DOMAIN products
        /\ ~products[req[r].param.id].isActive
        /\ ~req[r].resp.data.isActive
        /\ req[r].resp.message = "Product deactivated successfully"

\* the product table with the stock of one product set, all else as it was
WithStock(table, id, stock) ==
    [i \in DOMAIN table |->
        [f \in DOMAIN table[i] |-> IF i = id /\ f = "stock" THEN stock ELSE table[i][f]]]

\* C12: every updateStock(id, d) call on a stored product, whatever calls
\* and requests run between its start and its statement, adds exactly d to
\* the stock stored when its statement runs and changes nothing else, so
\* that the stock after any calls is the initial stock plus the sum of
\* their d: no increment is lost.
C12_IncrementAtomic ==
    [][\A r \in Req :
          (/\ Handling(r, "updateStock")
           /\ Ends(r)
           /\ req[r].param.id \in DOMAIN products)
          => /\ products' = WithStock(products, req[r].param.id,
                                      products[req[r].param.id].stock
                                          + req[r].param.quantity)
             /\ req'[r].resp.returned = products'[req[r].param.id]]_vars

\* two calls on one product that were in flight together have both
\* returned, the second with the first's stock plus its own quantity
C12_Witness ==
    /\ \A r \in Req : req[r].kind = "updateStock" /\ req[r].pc = "done"
    /\ req[1].param.id = req[2].param.id
    /\ req[1].param.quantity = 1 /\ req[2].param.quantity = -2
    /\ "returned" \in DOMAIN req[1].resp /\ "returned" \in DOMAIN req[2].resp
    /\ req[1].resp.returned.stock = req[2].resp.returned.stock + 1

\* C13: after any sequence of product create, update and updateStock
\* operations every stored product's stock is a non-negative integer.
C13_StockNonNegative ==
    \A p \in DOMAIN products : products[p].stock \in Nat

\* C14: in every reachable state every stored product has a non-empty name
\* and a non-empty sku, and every stored category a non-empty name.
C14_NamesNonEmpty ==
    /\ \A p \in DOMAIN products : products[p].name # <<>> /\ products[p].sku # <<>>
    /\ \A c \in DOMAIN categories : categories[c].name # <<>>

\* request r is taken in: a handler starts on it
Begins(r, kind) == Free(r) /\ req'[r] # req[r] /\ req'[r].kind = kind

\* the id parameter or the body of the request taken in fails its schema
FailsSchema(r) ==
    CASE req'[r].kind = "productCreate" -> ~createProductSchema(req'[r].raw).success
      [] req'[r].kind = "productUpdate" ->
            \/ ~productIdParamSchema(req'[r].param).success
            \/ ~updateProductSchema(req'[r].raw).success
      [] req'[r].kind = "productToggle" -> ~productIdParamSchema(req'[r].param).success
      [] req'[r].kind = "categoryCreate" -> ~createCategorySchema(req'[r].raw).success
      [] req'[r].kind = "categoryUpdate" ->
            \/ ~categoryIdParamSchema(req'[r].param).success
            \/ ~updateCategorySchema(req'[r].raw).success
      [] OTHER -> FALSE

\* C15: every request whose id parameter is not a UUID or whose body fails
\* its schema is answered with 400 at once, before any statement of a
\* service runs for it, and nothing is written.
C15_InvalidAnswered400 ==
    [][\A r \in Req :
          (\E kind \in {"productCreate", "productUpdate", "productToggle",
                        "categoryCreate", "categoryUpdate"} : Begins(r, kind))
          /\ FailsSchema(r)
          => /\ req'[r].pc = "done"
             /\ req'[r].resp.status = 400
             /\ <<categories, products>>' = <<categories, products>>]_vars

\* the price a body gives is no number, not positive or too large
BadPrice(raw) ==
    /\ "price" \in DOMAIN raw
    /\ \/ priceTransform(raw.price).nan
       \/ priceTransform(raw.price).value <= 0
       \/ priceTransform(raw.price).value > ProductPriceMax

\* C16: a product create or update whose price is a non-numeric string, not
\* positive or above the maximum is answered with 400 and writes nothing.
C16_BadPriceAnswered400 ==
    [][\A r \in Req :
          (Begins(r, "productCreate") \/ Begins(r, "productUpdate"))
          /\ BadPrice(req'[r].raw)
          => /\ req'[r].pc = "done"
             /\ req'[r].resp.status = 400
             /\ products' = products]_vars

\* C17: POST /products with a valid body checks the category first and the
\* sku second: when its category is not stored the answer is 400, also when
\* the sku is taken; when the category is stored and a stored product holds
\* the sku the answer is 409; otherwise the product is created and the
\* answer is 201.  Each condition is read when the handler checks it.
C17_CreateChecksInOrder ==
    [][\A r \in Req :
          Handling(r, "productCreate") /\ Steps(r)
          => /\ (/\ req[r].pc = "findCategory"
                 /\ req[r].body.categoryId \notin DOMAIN categories)
                => /\ req'[r].resp.status = 400
                   /\ req'[r].resp.message = "Category not found"
                   /\ products' = products
             /\ (/\ req[r].pc = "findBySku"
                 /\ \E p \in DOMAIN products : products[p].sku = req[r].body.sku)
                => /\ req'[r].resp.status = 409
                   /\ products' = products
             /\ (/\ req[r].pc = "create"
                 /\ req[r].body.categoryId \in DOMAIN categories
                 /\ ~\E p \in DOMAIN products : products[p].sku = req[r].body.sku)
                => /\ req'[r].resp.status = 201
                   /\ DOMAIN products' = DOMAIN products \cup {nextProdId}
                   /\ products'[nextProdId].sku = req[r].body.sku
             /\ req'[r].resp.status = 409
                => req[r].body.categoryId \in DOMAIN categories]_vars

\* a create with a taken sku and a category that is not stored was answered
\* 400, and a create was answered 201
C17_Witness ==
    /\ \E r \in Req :
          /\ Answered(r, "productCreate", 400)
          /\ req[r].resp.message = "Category not found"
          /\ \E p \in DOMAIN products : products[p].sku = req[r].raw.sku
    /\ \E r \in Req : Answered(r, "productCreate", 201)

\* another row of the table has the value in the field
HeldByOther(table, id, field, value) ==
    \E i \in (DOMAIN table) \ {id} : table[i][field] = value

\* C18: PUT /products/:id with a valid id and body answers 404 when no
\* product has the id; else 400 when a categoryId is supplied and no such
\* category is stored; else 409 when a sku is supplied that differs from
\* the product's own and another product holds it; else it applies the
\* update and answers 200.  A 400, 404 or 409 leaves the products as they
\* were, and the product's own sku is never a conflict.
C18_ProductUpdateOutcome ==
    [][\A r \in Req :
          Handling(r, "productUpdate") /\ Ends(r)
          => LET id == req[r].id
                 body == req[r].body
                 status == req'[r].resp.status
             IN  /\ status \in {400, 404, 409} => products' = products
                 /\ IF id \notin DOMAIN products THEN status = 404
                    ELSE IF /\ "categoryId" \in DOMAIN body
                            /\ body.categoryId \notin DOMAIN categories
                    THEN status = 400
                    ELSE IF /\ "sku" \in DOMAIN body
                            /\ body.sku # products[id].sku
                            /\ HeldByOther(products, id, "sku", body.sku)
                    THEN status = 409
                    ELSE /\ status = 200
                         /\ ChangedExactly(products, products', id, body,
                                           ProductFields)]_vars

\* C19: PUT /categories/:id with a valid id and body answers 404 when the
\* category is not stored; else 409, changing nothing, when a name is
\* supplied that differs from the category's own and another category
\* holds it, for every name value; else it applies the update and answers
\* 200, a name equal to the category's own included.
C19_CategoryUpdateOutcome ==
    [][\A r \in Req :
          Handling(r, "categoryUpdate") /\ Ends(r)
          => LET id == req[r].id
                 body == req[r].body
                 status == req'[r].resp.status
             IN  /\ status \in {404, 409} => categories' = categories
                 /\ IF id \notin DOMAIN categories THEN status = 404
                    ELSE IF /\ "name" \in DOMAIN body
                            /\ body.name # categories[id].name
                            /\ HeldByOther(categories, id, "name", body.name)
                    THEN status = 409
                    ELSE /\ status = 200
                         /\ ChangedExactly(categories, categories', id, body,
                                           {"name", "description"})]_vars

\* the error is a known request error of the database client with the code
Known(err, code) ==
    err.name = "PrismaClientKnownRequestError" /\ "code" \in DOMAIN err /\ err.code = code

\* what the claim's list says of every error but one kind: for a validation
\* error of the validation library 400, for a unique-constraint error 400
\* with the field, for a not-found error 404, for a foreign-key error 400
StatedFor(err, resp) ==
    CASE err.name = "ZodError" -> resp.status = 400
      [] Known(err, "P2002") ->
            /\ resp.status = 400
            /\ "target" \in DOMAIN err /\ err.target # ""
               => resp.message = "A record with this " \o err.target \o " already exists"
      [] Known(err, "P2025") -> resp.status = 404
      [] Known(err, "P2003") -> resp.status = 400
      [] OTHER -> resp.status = 500 /\ resp.message = "Internal server error"

\* C20, as stated: the error handler answers a validation-library error
\* with 400, a unique-constraint error with 400 naming the field, a
\* not-found error with 404, a foreign-key error with 400, and every other
\* database error and every other exception with 500.
C20_ErrorsAsListed ==
    \A r \in Req :
        req[r].kind = "next" /\ req[r].pc = "done" => StatedFor(req[r].raw, req[r].resp)

\* C20, amended: as listed, and a validation error of the database client
\* is answered with 400.
C20_ErrorsMapped ==
    \A r \in Req :
        req[r].kind = "next" /\ req[r].pc = "done"
        => IF req[r].raw.name = "PrismaClientValidationError"
           THEN req[r].resp.status = 400 /\ req[r].resp.message = "Invalid data provided"
           ELSE StatedFor(req[r].raw, req[r].resp)

\* a unique-constraint error on sku was answered 400 naming sku
C20_Witness ==
    \E r \in Req :
        /\ req[r].kind = "next" /\ req[r].pc = "done"
        /\ Known(req[r].raw, "P2002")
        /\ "target" \in DOMAIN req[r].raw /\ req[r].raw.target = "sku"
        /\ req[r].resp.status = 400
        /\ req[r].resp.message = "A record with this sku already exists"

\* the error is answered by the error handler's last branch
Unhandled(err) ==
    err.name \notin {"ZodError", "PrismaClientKnownRequestError",
                     "PrismaClientValidationError"}

\* C21: an unhandled exception is answered 500 with the generic message
\* whatever its own message is; the response carries the exception's
\* message only in development, and outside development it is the bare
\* generic envelope.
C21_MessageOnlyInDevelopment ==
    \A r \in Req :
        req[r].kind = "next" /\ req[r].pc = "done" /\ Unhandled(req[r].raw)
        => /\ req[r].resp.status = 500
           /\ req[r].resp.success = FALSE
           /\ req[r].resp.message = "Internal server error"
           /\ "error" \in DOMAIN req[r].resp
              => req[r].param = "development" /\ req[r].resp.error = req[r].raw.message
           /\ req[r].param # "development"
              => req[r].resp = sendError("Internal server error", 500)

\* an exception with the message "secret" was answered in production
C21_Witness ==
    \E r \in Req :
        /\ req[r].kind = "next" /\ req[r].pc = "done" /\ Unhandled(req[r].raw)
        /\ req[r].raw.message = "secret"
        /\ req[r].param = "production"
        /\ req[r].resp.status = 500
        /\ "error" \notin DOMAIN req[r].resp

\* an exception with the message "secret" was answered in development and
\* the response carries the message
C21_WitnessDevelopment ==
    \E r \in Req :
        /\ req[r].kind = "next" /\ req[r].pc = "done" /\ Unhandled(req[r].raw)
        /\ req[r].param = "development"
        /\ "error" \in DOMAIN req[r].resp /\ req[r].resp.error = "secret"

\* C22: a DELETE /products/:id with a valid id is answered 204 or 404 only:
\* 204 when the product is stored as the delete statement runs, and then it
\* is stored no longer, 404 when it is not stored, and then nothing is
\* written; of the deletes of one product at most one is answered 204, so
\* of two that interleave one is answered 204 and the other 404.
C22_DeleteOnce ==
    /\ [](\A r \in Req :
            req[r].kind = "productDelete" /\ req[r].pc = "done"
            => /\ req[r].resp.status \in {204, 404}
               /\ req[r].resp.status = 204 => req[r].param.id \notin DOMAIN products)
    /\ [](\A r, q \in Req :
            /\ r # q
            /\ Answered(r, "productDelete", 204)
            /\ req[q].kind = "productDelete" /\ req[q].pc = "done"
            /\ req[q].param = req[r].param
            => req[q].resp.status = 404)
    /\ [][\A r \in Req :
            Handling(r, "productDelete") /\ Ends(r)
            => IF req[r].id \in DOMAIN products
               THEN /\ req'[r].resp.status = 204
                    /\ DOMAIN products' = (DOMAIN products) \ {req[r].id}
               ELSE /\ req'[r].resp.status = 404
                    /\ products' = products]_vars

\* two deletes of one product interleaved: both found it, one deleted it and
\* was answered 204, the other's delete statement found no record and was
\* answered 404
C22_Witness ==
    \E r, q \in Req :
        /\ Answered(r, "productDelete", 204)
        /\ Answered(q, "productDelete", 404)
        /\ req[q].param = req[r].param
        /\ req[q].resp.message = "Record not found"

\* the database call of request r threw something that is not a
\* unique-constraint, not-found or foreign-key error
Failed(r) ==
    /\ req[r].pc = "done" /\ "thrown" \in DOMAIN req[r]
    /\ ~\E code \in {"P2002", "P2025", "P2003"} : Known(req[r].thrown, code)

\* C23, as stated: a request whose database call throws an error other than
\* a unique-constraint, not-found or foreign-key error is answered 500 with
\* success = false.
C23_FailureAnswered500 ==
    \A r \in Req :
        Failed(r) => req[r].resp.status = 500 /\ req[r].resp.success = FALSE

\* C23, amended: so it is unless what is thrown is a validation error of the
\* database client, which is answered 400 with success = false.
C23_FailureAnswered ==
    \A r \in Req :
        Failed(r)
        => /\ req[r].resp.success = FALSE
           /\ req[r].resp.status =
                 IF req[r].thrown.name = "PrismaClientValidationError" THEN 400 ELSE 500

\* the update statement of a product update timed out and the request was
\* answered 500
C23_Witness ==
    \E r \in Req :
        /\ Failed(r) /\ req[r].kind = "productUpdate"
        /\ Known(req[r].thrown, "P2024")
        /\ req[r].resp.status = 500

\* request r is a toggle whose update statement runs in this step and
\* succeeds
TogglesNow(r) ==
    /\ Handling(r, "productToggle") /\ req[r].pc = "update"
    /\ Ends(r) /\ req'[r].resp.status = 200

\* C24: a toggle writes and returns the negation of the flag it read, not
\* of the flag stored when it writes; so when two toggles of a product have
\* read the same value, both are answered 200 with the same isActive value
\* and the second write changes nothing: one toggle is lost.
C24_ToggleLost ==
    [][\A r \in Req :
         TogglesNow(r)
         => /\ products'[req[r].id].isActive = ~req[r].isActive
            /\ req'[r].resp.data.isActive = ~req[r].isActive
            /\ \A q \in Req \ {r} :
                  /\ Answered(q, "productToggle", 200)
                  /\ req[q].param = req[r].param
                  /\ req[q].resp.data.isActive = req'[r].resp.data.isActive
                  => products' = products]_vars

\* two toggles of the product stored active, both answered 200 with
\* isActive = false, and the flag stored is false: the negation of the
\* first value, after two toggles
C24_Witness ==
    /\ \A r \in Req :
          /\ Answered(r, "productToggle", 200)
          /\ req[r].param = Uuid(1)
          /\ req[r].resp.data.isActive = FALSE
    /\ 1 \in DOMAIN products /\ products[1].isActive = FALSE

\* C25: in every product or category list response the number of items is
\* min(limit, max(0, meta.total - (page - 1) * limit)), also when other
\* requests create or delete rows between the list's two queries.
C25_PageMatchesTotal ==
    \A r \in Req :
        /\ req[r].kind \in {"productGetAll", "categoryGetAll"}
        /\ req[r].pc = "done" /\ req[r].resp.status = 200
        => LET meta == req[r].resp.meta
           IN  Len(req[r].resp.data)
                 = Min(meta.limit, Max(0, meta.total - (meta.page - 1) * meta.limit))

\* C26: every request of the two controllers ends in exactly one response:
\* a request that has sent nothing is not ended, one that has sent a
\* response is ended and takes no further step, and every request taken in
\* is answered, by its handler or by the error handler.
C26_ExactlyOneResponse ==
    /\ [](\A r \in Req :
            req[r].kind # "none" => (req[r].pc = "done" <=> req[r].resp # NoResponse))
    /\ [][\A r \in Req : Steps(r) => Free(r) \/ req[r].resp = NoResponse]_vars
    /\ \A r \in Req : ~Free(r) ~> req[r].pc = "done" /\ req[r].resp.status # 0

\* a list whose query threw was answered once, by the error handler
C26_Witness ==
    \E r \in Req :
        /\ Failed(r) /\ req[r].kind = "categoryGetAll"
        /\ req[r].thrown.name = "PrismaClientInitializationError"
        /\ req[r].resp = sendError("Internal server error", 500)

\* the table changes in this step by the one record added
Adds(table, after) ==
    /\ \E id \in DOMAIN after : DOMAIN after = (DOMAIN table) \cup {id} /\ id \notin DOMAIN table
    /\ \A i \in DOMAIN table : after[i] = table[i]

\* the table changes in this step in the record id only, which stays
Changes(table, after, id) ==
    /\ DOMAIN after = DOMAIN table /\ id \in DOMAIN table
    /\ \A i \in (DOMAIN table) \ {id} : after[i] = table[i]

\* the table changes in this step by the record id removed
Removes(table, after, id) ==
    /\ id \in DOMAIN table /\ DOMAIN after = (DOMAIN table) \ {id}
    /\ \A i \in DOMAIN after : after[i] = table[i]

\* C27: a step that changes the stored categories or products is the step
\* that answers a create with 201, an update or toggle with 200 or a delete
\* with 204, and it changes only the record the request addresses; so a
\* GET request and a request answered 400, 404 or 409 change nothing.
C27_OnlyWritesChangeState ==
    [][/\ categories' # categories \/ products' # products
          => \E r \in Req :
                /\ ~Free(r) /\ Ends(r)
                /\ CASE req[r].kind = "categoryCreate" ->
                            /\ req'[r].resp.status = 201
                            /\ Adds(categories, categories') /\ products' = products
                     [] req[r].kind = "productCreate" ->
                            /\ req'[r].resp.status = 201
                            /\ Adds(products, products') /\ categories' = categories
                     [] req[r].kind = "categoryUpdate" ->
                            /\ req'[r].resp.status = 200
                            /\ Changes(categories, categories', req[r].param.id)
                            /\ products' = products
                     [] req[r].kind \in {"productUpdate", "productToggle"} ->
                            /\ req'[r].resp.status = 200
                            /\ Changes(products, products', req[r].param.id)
                            /\ categories' = categories
                     [] req[r].kind = "categoryDelete" ->
                            /\ req'[r].resp.status = 204
                            /\ Removes(categories, categories', req[r].param.id)
                            /\ products' = products
                     [] req[r].kind = "productDelete" ->
                            /\ req'[r].resp.status = 204
                            /\ Removes(products, products', req[r].param.id)
                            /\ categories' = categories
                     [] OTHER -> FALSE
       /\ \A r \in Req :
             /\ Steps(r)
             /\ \/ req'[r].kind \in {"categoryGetAll", "productGetAll",
                                     "categoryGetById", "productGetById"}
                \/ req'[r].resp.status \in {400, 404, 409}
             => categories' = categories /\ products' = products]_vars

\* a category was deleted and answered 204 while another category and a
\* product stay stored
C27_Witness ==
    \E r \in Req :
        /\ Answered(r, "categoryDelete", 204)
        /\ req[r].param.id \notin DOMAIN categories
        /\ DOMAIN categories # {} /\ DOMAIN products # {}

====
